---- MODULE Spec2Model ----
(***************************************************************************)
(* State-machine model of contracts/SocialReputationFHE.sol, and of the    *)
(* score store of frontend/web/src/App.tsx (last section of the model).    *)
(*                                                                         *)
(* Every public function of the contract is one action: one transaction.  *)
(* A call that reverts leaves the contract storage untouched and records   *)
(* the revert message in `last`; a call that returns records "ok" and the  *)
(* values returned.  Transactions run one at a time: the record of a call  *)
(* is cleared (Settle) before the next call is made.  An euint32 is        *)
(* modelled by the 32-bit value it encrypts, an ebool by the boolean it    *)
(* encrypts.  Solidity mappings are total functions whose unwritten slots  *)
(* hold the all-zero value of their type.                                  *)
(***************************************************************************)
EXTENDS Integers, Sequences, FiniteSets, TLC

----------------------------------------------------------------------------
(* Bounds of the model *)

\* vcCount is never pushed beyond MaxId (guard of every allocating call)
MaxId == 2
\* the decryption oracle hands out at most MaxReq request ids
MaxReq == 2
\* block.timestamp ranges over 0..MaxTime
MaxTime == 1
\* generateCompositeProof is called with at most MaxReqs requirements
MaxReqs == 1
\* updateReputationProfile is applied to lists of at most MaxFold credentials
MaxFold == 5
\* the frontend draws its score ids from 1..MaxScores
MaxScores == 2

----------------------------------------------------------------------------
(* Input domains *)

\* the zero address, value of an unwritten address slot; never a msg.sender
ZeroAddr == "0x0"
\* the deployer of the contract
Deployer == "admin"
\* accounts that send transactions
Addr == {"admin", "alice"}
\* accounts the admin is asked to authorize
Issuers == {"alice"}
\* accounts credentials are issued to
Subjects == {"alice", "bob"}
\* plaintexts behind the encryptedScore arguments
Scores == {80}
\* plaintexts behind the encryptedType / encryptedWeight arguments of a
\* direct issueEncryptedVC call
Types == {1}
Weights == {1}
\* plaintexts behind encryptedMinScore / encryptedRequirements
Thresholds == {70}
\* validityPeriod arguments of generateTimeBoundProof
Periods == {0, 1}
\* values an oracle callback may carry besides the true ones
Cleartexts == {7}
\* plaintexts behind the thresholds that a stored score of 80 is compared
\* with: below it, equal to it, above it
ProofThresholds == {70, 80, 90}
\* plaintexts behind the scores and weights that the weighted mean is taken of
MeanScores == {60, 80}
MeanWeights == {1, 2}

\* keys of the uint256-keyed mappings that the model tracks
IdSpace == 0 .. MaxId
\* request ids (0 is the value of an unwritten requestToProofId slot)
ReqSpace == 0 .. MaxReq

----------------------------------------------------------------------------
(* The external FHE library, on the values behind the ciphertexts.  All    *)
(* quantities that arise within the bounds of the model are far below      *)
(* 2^31, so none of add/mul wraps here.  A subtraction below zero does     *)
(* wrap: the 32-bit pattern it leaves is written as the negative number n  *)
(* that two's complement reads it as, and stands for the euint32 value     *)
(* 2^32 + n.  Sums and products of such numbers are the patterns the       *)
(* library computes; no quotient or comparison of the model is ever taken  *)
(* of one.                                                                 *)

FHE_asEuint32(n) == n
FHE_add(a, b) == a + b
FHE_mul(a, b) == a * b
FHE_sub(a, b) == a - b
FHE_div(a, b) == a \div b
FHE_max(a, b) == IF a >= b THEN a ELSE b
FHE_gte(a, b) == a >= b
FHE_and(a, b) == a /\ b
FHE_neq(a, b) == a # b
FHE_eq(a, b) == a = b
\* FHE.decrypt(ebool): the boolean behind the ciphertext, in the clear
FHE_decrypt(b) == b
FHE_cmux(c, a, b) == IF c THEN a ELSE b

\* the pattern n came out of a subtraction that went below zero: the euint32
\* value it stands for is 2^32 + n
Wrapped(n) == n < 0

\* what a division by an encrypted zero comes to: the library fails the
\* call, or hands back the all-ones pattern, 2^32 - 1
FHE_divByZero == {"revert", "all ones"}

\* the pattern 2^32 - 1
AllOnes == FHE_sub(0, 1)

----------------------------------------------------------------------------
(* Storage *)

VARIABLES
    vcCount,                \* uint256 public vcCount
    verifiableCredentials,  \* mapping(uint256 => EncryptedVC)
    reputationProfiles,     \* mapping(address => ReputationProfile)
    reputationProofs,       \* mapping(uint256 => ReputationProof)
    decryptedProofs,        \* mapping(uint256 => DecryptedProof)
    userCredentials,        \* mapping(address => uint256[])
    trustedIssuers,         \* mapping(address => bool)
    requestToProofId,       \* mapping(uint256 => uint256)
    systemAdmin,            \* address public systemAdmin
    requestCounter,         \* the oracle's count of decryption requests
    blockTime,              \* block.timestamp
    last,                   \* the call just made: function, arguments, outcome
    store,                  \* the key-value store behind getData / setData
    client                  \* App.tsx in each browser: state and position

storage == <<vcCount, verifiableCredentials, reputationProfiles,
             reputationProofs, decryptedProofs, userCredentials,
             trustedIssuers, requestToProofId, systemAdmin>>

vars == <<vcCount, verifiableCredentials, reputationProfiles,
          reputationProofs, decryptedProofs, userCredentials,
          trustedIssuers, requestToProofId, systemAdmin,
          requestCounter, blockTime, last, store, client>>

\* what the frontend works on; no function of SocialReputationFHE touches it
frontend == <<store, client>>

\* zero values of the four structs
ZeroVC == [id |-> 0, issuer |-> ZeroAddr, subject |-> ZeroAddr,
           encryptedType |-> 0, encryptedScore |-> 0, encryptedWeight |-> 0,
           timestamp |-> 0, isActive |-> FALSE]

ZeroProfile == [encryptedTotalScore |-> 0, encryptedTrustLevel |-> 0,
                encryptedCredentialCount |-> 0, isInitialized |-> FALSE]

ZeroProof == [encryptedMinScore |-> 0, encryptedProof |-> 0, isValid |-> FALSE]

ZeroDecrypted == [minScore |-> 0, proofValue |-> 0, isRevealed |-> FALSE]

\* sender of a call to a function that does not read msg.sender
AnySender == "any"

\* the record of a call: the function entered, msg.sender, the arguments in
\* the order of the signature, "ok" or the revert message, and the values
\* returned (<< >> when the function returns nothing)
Call(op, sender, args, result) ==
    [op |-> op, sender |-> sender, args |-> args, result |-> result,
     ret |-> << >>]

\* no call is being reported: the contract waits for the next transaction
NoCall == Call("none", AnySender, << >>, "none")

\* variant: the failure is reported by an early return after the counter was
\* incremented, so the increment survives
Revert_IdConsumed(op, sender, args, msg) ==
    /\ last = NoCall
    /\ last' = Call(op, sender, args, msg)
    /\ UNCHANGED frontend
    /\ vcCount' = IF vcCount < MaxId THEN vcCount + 1 ELSE vcCount
    /\ UNCHANGED <<verifiableCredentials, reputationProfiles,
                   reputationProofs, decryptedProofs, userCredentials,
                   trustedIssuers, requestToProofId, systemAdmin,
                   requestCounter, blockTime>>

\* a revert: no storage write survives, the message is what the caller sees
Revert(op, sender, args, msg) ==
    /\ last = NoCall
    /\ last' = Call(op, sender, args, msg)
    /\ UNCHANGED <<storage, requestCounter, blockTime>>
    /\ UNCHANGED frontend

\* a return: the caller sees "ok" and the values `ret`
Return(op, sender, args, ret) ==
    /\ last = NoCall
    /\ last' = [Call(op, sender, args, "ok") EXCEPT !.ret = ret]
    /\ UNCHANGED frontend

\* browsers that run App.tsx against the same store
Clients == {"c1", "c2"}
\* the values of `${Date.now()}-${Math.random()...}`, numbered in the order
\* of the clock they are drawn at
ScoreIds == 1 .. MaxScores
\* what the user typed into the score field
ScoreInputs == {"80"}

\* the keys App.tsx reads and writes: "score_keys" and `score_${id}`
ScoreKeysKey == <<"score_keys">>
ScoreKey(id) == <<"score_", id>>
StoreKeys == {ScoreKeysKey} \cup {ScoreKey(id) : id \in ScoreIds}

\* the bytes under a key never written: of length 0
NoBytes == [length0 |-> TRUE, json |-> << >>]
\* ethers.toUtf8Bytes(JSON.stringify(value)): bytes of length > 0 that
\* JSON.parse(ethers.toUtf8String(...)) reads the value back from
Utf8Json(value) == [length0 |-> FALSE, json |-> value]

\* App.tsx after mount, wallet not connected, nothing displayed
\* transactionStatus before any submission: { visible: false, status: "pending" }
NoStatus == [visible |-> FALSE, status |-> "pending"]

\* App.tsx after mount: wallet not connected, nothing displayed, no call of
\* addScore or loadScores under way
FreshClient ==
    [pc |-> "idle", provider |-> FALSE, addingScore |-> FALSE,
     transactionStatus |-> NoStatus, timer |-> FALSE,
     scoreId |-> 0, scoreData |-> << >>, keys |-> << >>, list |-> << >>,
     scores |-> << >>]

InitFrontend ==
    /\ store = [k \in StoreKeys |-> NoBytes]
    /\ client = [c \in Clients |-> FreshClient]

Init ==
    /\ InitFrontend
    /\ vcCount = 0
    /\ verifiableCredentials = [i \in IdSpace |-> ZeroVC]
    /\ reputationProfiles = [a \in Addr \cup Subjects |-> ZeroProfile]
    /\ reputationProofs = [i \in IdSpace |-> ZeroProof]
    /\ decryptedProofs = [i \in IdSpace |-> ZeroDecrypted]
    /\ userCredentials = [a \in Addr \cup Subjects |-> << >>]
    /\ trustedIssuers = [a \in Addr |-> FALSE]
    /\ requestToProofId = [r \in ReqSpace |-> 0]
    /\ systemAdmin = Deployer
    /\ requestCounter = 0
    /\ blockTime = 0
    /\ last = NoCall

----------------------------------------------------------------------------
(* Modifiers *)

\* variant: the admin check passes for every sender
onlyAdmin_AnySender(sender) == TRUE

onlyAdmin(sender) == sender = systemAdmin

\* variant: the allow-list is not consulted
onlyIssuer_AnySender(sender) == TRUE

onlyIssuer(sender) == trustedIssuers[sender]

----------------------------------------------------------------------------
(* Credential Store *)

\* function authorizeIssuer(address issuer) public onlyAdmin
AuthorizeIssuer(sender, issuer) ==
    IF ~onlyAdmin(sender)
    THEN Revert("authorizeIssuer", sender, <<issuer>>, "Not admin")
    ELSE /\ trustedIssuers' = [trustedIssuers EXCEPT ![issuer] = TRUE]
         /\ Return("authorizeIssuer", sender, <<issuer>>, << >>)
         /\ UNCHANGED <<vcCount, verifiableCredentials, reputationProfiles,
                        reputationProofs, decryptedProofs, userCredentials,
                        requestToProofId, systemAdmin, requestCounter,
                        blockTime>>

\* variant: the id is read before the counter is incremented
AllocatedId_BeforeIncrement == vcCount

\* vcCount += 1; uint256 newId = vcCount: the id given to the object that
\* the call creates, credential or proof
AllocatedId == vcCount + 1

\* variant: score and weight stored in each other's field
NewVC_ScoreWeightSwapped(newId, sender, subject, encryptedType, encryptedScore, encryptedWeight) ==
    [id |-> newId, issuer |-> sender, subject |-> subject,
     encryptedType |-> encryptedType, encryptedScore |-> encryptedWeight,
     encryptedWeight |-> encryptedScore, timestamp |-> blockTime,
     isActive |-> TRUE]

\* the struct literal stored by issueEncryptedVC
NewVC(newId, sender, subject, encryptedType, encryptedScore, encryptedWeight) ==
    [id |-> newId, issuer |-> sender, subject |-> subject,
     encryptedType |-> encryptedType, encryptedScore |-> encryptedScore,
     encryptedWeight |-> encryptedWeight, timestamp |-> blockTime,
     isActive |-> TRUE]

\* the struct literal stored on a subject's first credential
FreshProfile ==
    [encryptedTotalScore |-> FHE_asEuint32(0),
     encryptedTrustLevel |-> FHE_asEuint32(0),
     encryptedCredentialCount |-> FHE_asEuint32(0),
     isInitialized |-> TRUE]

\* variant: the profile is left as it is, initialized or not
ProfileAfterIssue_Untouched(subject) == reputationProfiles[subject]

\* variant: every issuance writes the fresh profile
ProfileAfterIssue_Reset(subject) == FreshProfile

\* "Initialize reputation profile if needed"
ProfileAfterIssue(subject) ==
    IF ~reputationProfiles[subject].isInitialized
    THEN FreshProfile
    ELSE reputationProfiles[subject]

\* function issueEncryptedVC(...) public onlyIssuer, as entered from `op`
\* (msg.sender is the sender of the transaction in an internal call too)
issueEncryptedVC(op, args, sender, subject, encryptedType, encryptedScore, encryptedWeight) ==
    IF ~onlyIssuer(sender)
    THEN Revert(op, sender, args, "Not trusted issuer")
    ELSE /\ vcCount < MaxId
         /\ LET newId == AllocatedId IN
            /\ vcCount' = vcCount + 1
            /\ verifiableCredentials' =
                 [verifiableCredentials EXCEPT ![newId] =
                    NewVC(newId, sender, subject, encryptedType,
                          encryptedScore, encryptedWeight)]
            /\ userCredentials' =
                 [userCredentials EXCEPT ![subject] = Append(@, newId)]
            /\ reputationProfiles' =
                 [reputationProfiles EXCEPT ![subject] = ProfileAfterIssue(subject)]
            /\ Return(op, sender, args, << >>)
         /\ UNCHANGED <<reputationProofs, decryptedProofs, trustedIssuers,
                        requestToProofId, systemAdmin, requestCounter,
                        blockTime>>

\* a wrapper declared onlyIssuer: its own modifier runs, then the internal call
issueViaIssuerWrapper(op, args, sender, subject, encryptedType, encryptedScore, encryptedWeight) ==
    IF ~onlyIssuer(sender)
    THEN Revert(op, sender, args, "Not trusted issuer")
    ELSE issueEncryptedVC(op, args, sender, subject, encryptedType,
                          encryptedScore, encryptedWeight)

IssueEncryptedVC(sender, subject, encryptedType, encryptedScore, encryptedWeight) ==
    issueEncryptedVC("issueEncryptedVC",
                     <<subject, encryptedType, encryptedScore, encryptedWeight>>,
                     sender, subject, encryptedType, encryptedScore,
                     encryptedWeight)

IssueAnonymousAttestation(sender, subject, encryptedScore) ==
    issueViaIssuerWrapper("issueAnonymousAttestation", <<subject, encryptedScore>>, sender, subject,
                          FHE_asEuint32(0), encryptedScore, FHE_asEuint32(1))

IssueCrossPlatformCredential(sender, subject, encryptedPlatformScore) ==
    issueViaIssuerWrapper("issueCrossPlatformCredential", <<subject, encryptedPlatformScore>>, sender, subject,
                          FHE_asEuint32(999), encryptedPlatformScore,
                          FHE_asEuint32(2))

\* declared without onlyIssuer; the check is the one of issueEncryptedVC
IssueCommunityEndorsement(sender, subject, encryptedEndorsement) ==
    issueEncryptedVC("issueCommunityEndorsement",
                     <<subject, encryptedEndorsement>>, sender, subject,
                     FHE_asEuint32(100), encryptedEndorsement, FHE_asEuint32(3))

IssueSkillCertification(sender, subject, encryptedSkillLevel) ==
    issueViaIssuerWrapper("issueSkillCertification", <<subject, encryptedSkillLevel>>, sender, subject,
                          FHE_asEuint32(200), encryptedSkillLevel,
                          FHE_asEuint32(2))

IssueDIDScore(sender, subject, encryptedDIDScore) ==
    issueViaIssuerWrapper("issueDIDScore", <<subject, encryptedDIDScore>>, sender, subject,
                          FHE_asEuint32(400), encryptedDIDScore,
                          FHE_asEuint32(3))

\* variant: nobody is turned away
IsIssuerOf_Anyone(vc, sender) == TRUE

\* variant: a slot with no issuer recorded is open to everybody
IsIssuerOf_OrUnset(vc, sender) == vc.issuer = sender \/ vc.issuer = ZeroAddr

\* require(vc.issuer == msg.sender, "Not issuer")
IsIssuerOf(vc, sender) == vc.issuer = sender

\* variant: revocation flips the flag
Revoked_Toggled(vc) == [vc EXCEPT !.isActive = ~@]

\* variant: revocation deletes the slot
Revoked_Deleted(vc) == ZeroVC

\* vc.isActive = false
Revoked(vc) == [vc EXCEPT !.isActive = FALSE]

\* function revokeCredential(uint256 vcId) public
RevokeCredential(sender, vcId) ==
    LET vc == verifiableCredentials[vcId] IN
    IF ~IsIssuerOf(vc, sender)
    THEN Revert("revokeCredential", sender, <<vcId>>, "Not issuer")
    ELSE /\ verifiableCredentials' =
              [verifiableCredentials EXCEPT ![vcId] = Revoked(vc)]
         /\ Return("revokeCredential", sender, <<vcId>>, << >>)
         /\ UNCHANGED <<vcCount, reputationProfiles, reputationProofs,
                        decryptedProofs, userCredentials, trustedIssuers,
                        requestToProofId, systemAdmin, requestCounter,
                        blockTime>>

\* variant: issuer and subject returned in each other's place
VCFields_IssuerSubjectSwapped(vc) ==
    <<vc.subject, vc.issuer, vc.encryptedType, vc.encryptedScore,
      vc.encryptedWeight, vc.timestamp, vc.isActive>>

\* the tuple returned by getEncryptedVC
VCFields(vc) ==
    <<vc.issuer, vc.subject, vc.encryptedType, vc.encryptedScore,
      vc.encryptedWeight, vc.timestamp, vc.isActive>>

\* function getEncryptedVC(uint256 vcId) public view: a read of the mapping
\* slot, with no require in it
getEncryptedVC(vcId) == VCFields(verifiableCredentials[vcId])

GetEncryptedVC(vcId) ==
    /\ Return("getEncryptedVC", AnySender, <<vcId>>, getEncryptedVC(vcId))
    /\ UNCHANGED <<storage, requestCounter, blockTime>>

\* function protectUserPrivacy(address subject) public onlyAdmin: empty body
ProtectUserPrivacy(sender, subject) ==
    IF ~onlyAdmin(sender)
    THEN Revert("protectUserPrivacy", sender, <<subject>>, "Not admin")
    ELSE /\ Return("protectUserPrivacy", sender, <<subject>>, << >>)
         /\ UNCHANGED <<storage, requestCounter, blockTime>>

----------------------------------------------------------------------------
(* Reputation Profile *)

\* variant: the loop does not test isActive
RECURSIVE FoldCredentials_CountingRevoked(_, _, _, _, _)
FoldCredentials_CountingRevoked(credentials, i, totalScore, totalWeight, credentialCount) ==
    IF i > Len(credentials)
    THEN <<totalScore, totalWeight, credentialCount>>
    ELSE LET vc == verifiableCredentials[credentials[i]] IN
         FoldCredentials_CountingRevoked(credentials, i + 1,
             FHE_add(totalScore, FHE_mul(vc.encryptedScore, vc.encryptedWeight)),
             FHE_add(totalWeight, vc.encryptedWeight),
             FHE_add(credentialCount, FHE_asEuint32(1)))

\* the loop of updateReputationProfile over credentials[i..], with the three
\* accumulators it carries
RECURSIVE FoldCredentials(_, _, _, _, _)
FoldCredentials(credentials, i, totalScore, totalWeight, credentialCount) ==
    IF i > Len(credentials)
    THEN <<totalScore, totalWeight, credentialCount>>
    ELSE LET vc == verifiableCredentials[credentials[i]] IN
         IF vc.isActive
         THEN FoldCredentials(credentials, i + 1,
                  FHE_add(totalScore, FHE_mul(vc.encryptedScore, vc.encryptedWeight)),
                  FHE_add(totalWeight, vc.encryptedWeight),
                  FHE_add(credentialCount, FHE_asEuint32(1)))
         ELSE FoldCredentials(credentials, i + 1, totalScore, totalWeight,
                              credentialCount)

\* variant: the trust level is added to the one stored
calculateTrustLevel_Accumulating(profile) ==
    FHE_add(profile.encryptedTrustLevel,
            FHE_add(FHE_div(profile.encryptedTotalScore, FHE_asEuint32(10)),
                    FHE_div(profile.encryptedCredentialCount, FHE_asEuint32(5))))

\* function calculateTrustLevel(ReputationProfile storage profile)
calculateTrustLevel(profile) ==
    LET scoreFactor == FHE_div(profile.encryptedTotalScore, FHE_asEuint32(10))
        countFactor == FHE_div(profile.encryptedCredentialCount, FHE_asEuint32(5))
    IN  FHE_add(scoreFactor, countFactor)

\* variant: the trust level is computed from the profile as it was before
\* the two assignments
UpdatedProfile_StaleTrust(subject) ==
    LET profile == reputationProfiles[subject]
        sums == FoldCredentials(userCredentials[subject], 1, FHE_asEuint32(0),
                                FHE_asEuint32(0), FHE_asEuint32(0))
    IN  [profile EXCEPT
           !.encryptedTotalScore =
               FHE_div(sums[1], FHE_max(sums[2], FHE_asEuint32(1))),
           !.encryptedCredentialCount = sums[3],
           !.encryptedTrustLevel = calculateTrustLevel(profile)]

\* the profile as updateReputationProfile leaves it: the two assignments,
\* then the trust level computed from the profile just written
UpdatedProfile(subject) ==
    LET profile == reputationProfiles[subject]
        sums == FoldCredentials(userCredentials[subject], 1, FHE_asEuint32(0),
                                FHE_asEuint32(0), FHE_asEuint32(0))
        p1 == [profile EXCEPT
                 !.encryptedTotalScore =
                     FHE_div(sums[1], FHE_max(sums[2], FHE_asEuint32(1))),
                 !.encryptedCredentialCount = sums[3]]
    IN  [p1 EXCEPT !.encryptedTrustLevel = calculateTrustLevel(p1)]

\* variant: the guard is skipped
ProfileInitialized_Skipped(subject) == TRUE

\* require(profile.isInitialized, "Profile not initialized")
ProfileInitialized(subject) == reputationProfiles[subject].isInitialized

\* function updateReputationProfile(address subject) public
UpdateReputationProfile(subject) ==
    IF ~ProfileInitialized(subject)
    THEN Revert("updateReputationProfile", AnySender, <<subject>>,
                "Profile not initialized")
    ELSE /\ reputationProfiles' =
              [reputationProfiles EXCEPT ![subject] = UpdatedProfile(subject)]
         /\ Return("updateReputationProfile", AnySender, <<subject>>, << >>)
         /\ UNCHANGED <<vcCount, verifiableCredentials, reputationProofs,
                        decryptedProofs, userCredentials, trustedIssuers,
                        requestToProofId, systemAdmin, requestCounter,
                        blockTime>>

----------------------------------------------------------------------------
(* Proof Ledger *)

\* variant: the score must exceed the threshold
SingleProof_Strict(profile, encryptedMinScore) ==
    [encryptedMinScore |-> encryptedMinScore,
     encryptedProof |-> IF profile.encryptedTotalScore > encryptedMinScore
                        THEN profile.encryptedTotalScore ELSE 0,
     isValid |-> TRUE]

\* the proof stored by generateReputationProof
SingleProof(profile, encryptedMinScore) ==
    LET meetsRequirement == FHE_gte(profile.encryptedTotalScore, encryptedMinScore)
        proofValue == FHE_cmux(meetsRequirement, profile.encryptedTotalScore,
                               FHE_asEuint32(0))
    IN  [encryptedMinScore |-> encryptedMinScore, encryptedProof |-> proofValue,
         isValid |-> TRUE]

\* the storage writes of generateReputationProof, leaving the proof at
\* newProofId with the validity flag `isValid`
storeSingleProof(op, args, subject, encryptedMinScore, isValid) ==
    /\ vcCount < MaxId
    /\ LET newProofId == AllocatedId IN
       /\ vcCount' = vcCount + 1
       /\ reputationProofs' =
            [reputationProofs EXCEPT ![newProofId] =
               [SingleProof(reputationProfiles[subject], encryptedMinScore)
                  EXCEPT !.isValid = isValid]]
       /\ decryptedProofs' =
            [decryptedProofs EXCEPT ![newProofId] =
               [minScore |-> 0, proofValue |-> 0, isRevealed |-> FALSE]]
       /\ Return(op, AnySender, args, <<newProofId>>)
    /\ UNCHANGED <<verifiableCredentials, reputationProfiles, userCredentials,
                   trustedIssuers, requestToProofId, systemAdmin,
                   requestCounter, blockTime>>

\* function generateReputationProof(address subject, euint32 encryptedMinScore)
GenerateReputationProof(subject, encryptedMinScore) ==
    IF ~ProfileInitialized(subject)
    THEN Revert("generateReputationProof", AnySender,
                <<subject, encryptedMinScore>>, "Profile not initialized")
    ELSE storeSingleProof("generateReputationProof",
                          <<subject, encryptedMinScore>>, subject,
                          encryptedMinScore, TRUE)

\* variant: the proof stays valid when a period is given
TimeBoundValidity_WhilePeriodLasts(validityPeriod) == validityPeriod > 0

\* reputationProofs[proofId].isValid = false, whatever validityPeriod is
TimeBoundValidity(validityPeriod) == FALSE

\* function generateTimeBoundProof(subject, encryptedMinScore, validityPeriod):
\* generateReputationProof, then reputationProofs[proofId].isValid = false
GenerateTimeBoundProof(subject, encryptedMinScore, validityPeriod) ==
    IF ~ProfileInitialized(subject)
    THEN Revert("generateTimeBoundProof", AnySender,
                <<subject, encryptedMinScore, validityPeriod>>,
                "Profile not initialized")
    ELSE storeSingleProof("generateTimeBoundProof",
                          <<subject, encryptedMinScore, validityPeriod>>,
                          subject, encryptedMinScore,
                          TimeBoundValidity(validityPeriod))

\* the loop of generateCompositeProof over encryptedRequirements[i..]
RECURSIVE FoldRequirements(_, _, _, _, _)
FoldRequirements(totalScore, encryptedRequirements, i, meetsAll, compositeProof) ==
    IF i > Len(encryptedRequirements)
    THEN <<meetsAll, compositeProof>>
    ELSE LET meetsRequirement == FHE_gte(totalScore, encryptedRequirements[i]) IN
         FoldRequirements(totalScore, encryptedRequirements, i + 1,
             FHE_and(meetsAll, meetsRequirement),
             FHE_add(compositeProof,
                     FHE_cmux(meetsRequirement, encryptedRequirements[i],
                              FHE_asEuint32(0))))

\* variant: the proof is valid only if every requirement is met
CompositeProof_ValidIfAllMet(profile, encryptedRequirements) ==
    LET r == FoldRequirements(profile.encryptedTotalScore, encryptedRequirements,
                              1, TRUE, FHE_asEuint32(0))
    IN  [encryptedMinScore |-> FHE_cmux(r[1], FHE_asEuint32(1), FHE_asEuint32(0)),
         encryptedProof |-> r[2],
         isValid |-> r[1]]

\* the proof stored by generateCompositeProof
CompositeProof(profile, encryptedRequirements) ==
    LET r == FoldRequirements(profile.encryptedTotalScore, encryptedRequirements,
                              1, TRUE, FHE_asEuint32(0))
    IN  [encryptedMinScore |-> FHE_cmux(r[1], FHE_asEuint32(1), FHE_asEuint32(0)),
         encryptedProof |-> r[2],
         isValid |-> TRUE]

\* function generateCompositeProof(address subject, euint32[] memory reqs)
GenerateCompositeProof(subject, encryptedRequirements) ==
    IF ~ProfileInitialized(subject)
    THEN Revert("generateCompositeProof", AnySender,
                <<subject, encryptedRequirements>>, "Profile not initialized")
    ELSE /\ vcCount < MaxId
         /\ LET newProofId == AllocatedId IN
            /\ vcCount' = vcCount + 1
            /\ reputationProofs' =
                 [reputationProofs EXCEPT ![newProofId] =
                    CompositeProof(reputationProfiles[subject],
                                   encryptedRequirements)]
            /\ decryptedProofs' =
                 [decryptedProofs EXCEPT ![newProofId] =
                    [minScore |-> 0, proofValue |-> 0, isRevealed |-> FALSE]]
            /\ Return("generateCompositeProof", AnySender,
                      <<subject, encryptedRequirements>>, <<newProofId>>)
         /\ UNCHANGED <<verifiableCredentials, reputationProfiles,
                        userCredentials, trustedIssuers, requestToProofId,
                        systemAdmin, requestCounter, blockTime>>

----------------------------------------------------------------------------
(* Decryption Request Router *)

\* variant: a request is given the id of the one before it
FHE_requestDecryption_Reused ==
    IF requestCounter > 0 THEN requestCounter - 1 ELSE requestCounter

\* the request id FHE.requestDecryption returns: the oracle's running count
FHE_requestDecryption == requestCounter

\* variant: a revealed proof passes for one not yet revealed
AlreadyDecrypted_Never(proofId) == FALSE

\* the condition that require(!decryptedProofs[proofId].isRevealed, ...) rejects
AlreadyDecrypted(proofId) == decryptedProofs[proofId].isRevealed

\* function requestProofDecryption(uint256 proofId) public
RequestProofDecryption(proofId) ==
    IF ~reputationProofs[proofId].isValid
    THEN Revert("requestProofDecryption", AnySender, <<proofId>>,
                "Invalid proof")
    ELSE IF AlreadyDecrypted(proofId)
    THEN Revert("requestProofDecryption", AnySender, <<proofId>>,
                "Already decrypted")
    ELSE /\ requestCounter < MaxReq
         /\ LET reqId == FHE_requestDecryption IN
            /\ requestToProofId' = [requestToProofId EXCEPT ![reqId] = proofId]
            /\ requestCounter' = requestCounter + 1
            /\ Return("requestProofDecryption", AnySender, <<proofId>>,
                      <<reqId>>)
         /\ UNCHANGED <<vcCount, verifiableCredentials, reputationProfiles,
                        reputationProofs, decryptedProofs, userCredentials,
                        trustedIssuers, systemAdmin, blockTime>>

\* variant: every request id passes for a recorded one
KnownRequest_Any(proofId) == TRUE

\* variant: a request whose proof is revealed passes for one never recorded
KnownRequest_Unrevealed(proofId) ==
    proofId # 0 /\ ~decryptedProofs[proofId].isRevealed

\* require(proofId != 0, "Invalid request")
KnownRequest(proofId) == proofId # 0

\* variant: the two values are stored and the flag is left as it was
Revealed_FlagUnset(cleartexts) ==
    [minScore |-> cleartexts[1], proofValue |-> cleartexts[2],
     isRevealed |-> FALSE]

\* variant: the two decoded values are stored in each other's field
Revealed_FieldsSwapped(cleartexts) ==
    [minScore |-> cleartexts[2], proofValue |-> cleartexts[1],
     isRevealed |-> TRUE]

\* the DecryptedProof after the three assignments of decryptReputationProof
Revealed(cleartexts) ==
    [minScore |-> cleartexts[1], proofValue |-> cleartexts[2],
     isRevealed |-> TRUE]

\* variant: the call of FHE.checkSignatures is missing
FHE_checkSignatures_Skipped(requestId, cleartexts, sigOk) == TRUE

\* FHE.checkSignatures(requestId, cleartexts, proof) returns (and does not
\* revert) exactly when `proof` authenticates cleartexts for requestId
FHE_checkSignatures(requestId, cleartexts, sigOk) == sigOk

\* function decryptReputationProof(requestId, cleartexts, proof); `sigOk`
\* tells whether FHE.checkSignatures accepts `proof` for requestId and
\* cleartexts, and cleartexts is the pair that abi.decode yields
DecryptReputationProof(requestId, cleartexts, sigOk) ==
    LET proofId == requestToProofId[requestId]
        op == "decryptReputationProof"
        args == <<requestId, cleartexts, sigOk>>
    IN
    IF ~KnownRequest(proofId)
    THEN Revert(op, AnySender, args, "Invalid request")
    ELSE IF ~reputationProofs[proofId].isValid
    THEN Revert(op, AnySender, args, "Invalid proof")
    ELSE IF AlreadyDecrypted(proofId)
    THEN Revert(op, AnySender, args, "Already decrypted")
    ELSE IF ~FHE_checkSignatures(requestId, cleartexts, sigOk)
    THEN Revert(op, AnySender, args, "Invalid signature")
    ELSE /\ decryptedProofs' =
              [decryptedProofs EXCEPT ![proofId] = Revealed(cleartexts)]
         /\ Return(op, AnySender, args, << >>)
         /\ UNCHANGED <<vcCount, verifiableCredentials, reputationProfiles,
                        reputationProofs, userCredentials, trustedIssuers,
                        requestToProofId, systemAdmin, requestCounter,
                        blockTime>>

\* the cleartext pairs a callback for requestId may carry: the values behind
\* the two submitted ciphertexts, or something else
CallbackCleartexts(requestId) ==
    LET proof == reputationProofs[requestToProofId[requestId]] IN
    {<<proof.encryptedMinScore, proof.encryptedProof>>}
        \cup (Cleartexts \X Cleartexts)

----------------------------------------------------------------------------
(* Derived metrics: view functions over a profile and a credential list *)

\* the nested loop of calculateCredentialDiversity, at the pair (i, j)
RECURSIVE DiversityLoop(_, _, _, _)
DiversityLoop(credentials, i, j, diversity) ==
    IF i > Len(credentials)
    THEN diversity
    ELSE IF j > Len(credentials)
    THEN DiversityLoop(credentials, i + 1, i + 2, diversity)
    ELSE LET vc1 == verifiableCredentials[credentials[i]]
             vc2 == verifiableCredentials[credentials[j]]
             differentType == FHE_neq(vc1.encryptedType, vc2.encryptedType)
         IN  DiversityLoop(credentials, i, j + 1,
                 FHE_add(diversity,
                         FHE_cmux(differentType, FHE_asEuint32(1),
                                  FHE_asEuint32(0))))

\* function calculateCredentialDiversity(address subject) public view
calculateCredentialDiversity(subject) ==
    LET credentials == userCredentials[subject] IN
    IF Len(credentials) < 2
    THEN FHE_asEuint32(0)
    ELSE DiversityLoop(credentials, 1, 2, FHE_asEuint32(0))

\* the second argument of FHE.div in calculateSybilResistance
SybilDivisor(subject) == reputationProfiles[subject].encryptedCredentialCount

\* function calculateSybilResistance(address subject) public view
CalculateSybilResistance(subject) ==
    LET op == "calculateSybilResistance"
        diversity == calculateCredentialDiversity(subject)
        dividend == FHE_mul(diversity, FHE_asEuint32(100))
    IN
    IF ~ProfileInitialized(subject)
    THEN Revert(op, AnySender, <<subject>>, "Profile not initialized")
    ELSE IF SybilDivisor(subject) = 0
    THEN \E outcome \in FHE_divByZero :
            IF outcome = "revert"
            THEN Revert(op, AnySender, <<subject>>, "Division by zero")
            ELSE /\ Return(op, AnySender, <<subject>>, <<AllOnes>>)
                 /\ UNCHANGED <<storage, requestCounter, blockTime>>
    ELSE /\ Return(op, AnySender, <<subject>>,
                   <<FHE_div(dividend, SybilDivisor(subject))>>)
         /\ UNCHANGED <<storage, requestCounter, blockTime>>

\* the loop of calculateConsistency over credentials[i..]
RECURSIVE DeviationLoop(_, _, _, _)
DeviationLoop(credentials, i, avgScore, totalDeviation) ==
    IF i > Len(credentials)
    THEN totalDeviation
    ELSE LET vc == verifiableCredentials[credentials[i]]
             deviation == FHE_sub(vc.encryptedScore, avgScore)
         IN  DeviationLoop(credentials, i + 1, avgScore,
                 FHE_add(totalDeviation, FHE_mul(deviation, deviation)))

\* variant: only the empty list is taken for perfectly consistent
FewerThanTwo_Empty(credentials) == Len(credentials) < 1

\* if (credentials.length < 2) return FHE.asEuint32(100)
FewerThanTwo(credentials) == Len(credentials) < 2

\* function calculateConsistency(address subject) public view
calculateConsistency(subject) ==
    LET credentials == userCredentials[subject] IN
    IF FewerThanTwo(credentials)
    THEN FHE_asEuint32(100)
    ELSE LET avgScore == reputationProfiles[subject].encryptedTotalScore
             totalDeviation == DeviationLoop(credentials, 1, avgScore,
                                             FHE_asEuint32(0))
             variance == FHE_div(totalDeviation,
                                 FHE_asEuint32(Len(credentials)))
         IN  FHE_sub(FHE_asEuint32(100), FHE_div(variance, FHE_asEuint32(10)))

CalculateConsistency(subject) ==
    /\ Return("calculateConsistency", AnySender, <<subject>>,
              <<calculateConsistency(subject)>>)
    /\ UNCHANGED <<storage, requestCounter, blockTime>>

\* function calculateSocialCapital(address subject) public view, past its
\* require
calculateSocialCapital(subject) ==
    FHE_mul(reputationProfiles[subject].encryptedTrustLevel,
            reputationProfiles[subject].encryptedCredentialCount)

\* vc.encryptedType == FHE.asEuint32(300) compares two ciphertext handles:
\* handles are equal only if the plaintexts are, and whether the handle of a
\* stored 300 is that of a fresh asEuint32(300) is up to the library.  The
\* outcomes of the comparisons over a list, one boolean for each credential:
HandleMatches(vcs, credentials) ==
    {m \in [1 .. Len(credentials) -> BOOLEAN] :
        \A i \in 1 .. Len(credentials) :
           m[i] => vcs[credentials[i]].encryptedType = 300}

\* the loop of calculateEcosystemContribution over credentials[i..], the
\* handle comparisons coming out as sameHandle
RECURSIVE EcosystemLoop(_, _, _, _, _)
EcosystemLoop(vcs, credentials, i, sameHandle, contribution) ==
    IF i > Len(credentials)
    THEN contribution
    ELSE IF sameHandle[i]
         THEN EcosystemLoop(vcs, credentials, i + 1, sameHandle,
                  FHE_add(contribution, vcs[credentials[i]].encryptedScore))
         ELSE EcosystemLoop(vcs, credentials, i + 1, sameHandle, contribution)

\* the loop "Find DID score credential" of calculateWeb3ReputationIndex over
\* credentials[i..]: the didScore it ends with and the index it stops at
\* (Len + 1 when it runs to the end)
RECURSIVE DidScoreScan(_, _, _)
DidScoreScan(vcs, credentials, i) ==
    IF i > Len(credentials)
    THEN [didScore |-> FHE_asEuint32(0), stoppedAt |-> i]
    ELSE IF FHE_decrypt(FHE_eq(vcs[credentials[i]].encryptedType,
                               FHE_asEuint32(400)))
         THEN [didScore |-> vcs[credentials[i]].encryptedScore,
               stoppedAt |-> i]
         ELSE DidScoreScan(vcs, credentials, i + 1)

\* the control paths calculateWeb3ReputationIndex can take past its require
\* over the list `credentials` in the credential mapping vcs: the branches
\* taken in calculateEcosystemContribution and the iteration at which the
\* DID loop is left
Web3IndexPaths(vcs, credentials) ==
    {<<m, DidScoreScan(vcs, credentials, 1).stoppedAt>> :
        m \in HandleMatches(vcs, credentials)}

\* function calculateWeb3ReputationIndex(address subject) public view
CalculateWeb3ReputationIndex(subject) ==
    LET op == "calculateWeb3ReputationIndex"
        credentials == userCredentials[subject]
    IN
    IF ~ProfileInitialized(subject)
    THEN Revert(op, AnySender, <<subject>>, "Profile not initialized")
    ELSE \E sameHandle \in HandleMatches(verifiableCredentials, credentials) :
            LET socialCapital == calculateSocialCapital(subject)
                ecosystemContribution ==
                    EcosystemLoop(verifiableCredentials, credentials, 1,
                                  sameHandle, FHE_asEuint32(0))
                didScore ==
                    DidScoreScan(verifiableCredentials, credentials, 1).didScore
            IN  /\ Return(op, AnySender, <<subject>>,
                          <<FHE_div(FHE_add(FHE_add(socialCapital,
                                                    ecosystemContribution),
                                            didScore),
                                    FHE_asEuint32(3))>>)
                /\ UNCHANGED <<storage, requestCounter, blockTime>>

----------------------------------------------------------------------------
(* Environment *)

\* the transaction is over: its record is cleared
Settle ==
    /\ last # NoCall
    /\ last' = NoCall
    /\ UNCHANGED <<storage, requestCounter, blockTime>>
    /\ UNCHANGED frontend

\* a later block, between two transactions: block.timestamp grows
Tick ==
    /\ last = NoCall
    /\ blockTime < MaxTime
    /\ blockTime' = blockTime + 1
    /\ UNCHANGED <<storage, requestCounter, last>>
    /\ UNCHANGED frontend

\* requirement lists of length 0..MaxReqs
RECURSIVE SeqsUpTo(_, _)
SeqsUpTo(S, n) ==
    IF n = 0 THEN {<< >>}
    ELSE LET shorter == SeqsUpTo(S, n - 1) IN
         shorter \cup {Append(q, x) : q \in shorter, x \in S}

Requirements == SeqsUpTo(Thresholds, MaxReqs)

Next ==
    \/ \E sender \in Addr, issuer \in Issuers : AuthorizeIssuer(sender, issuer)
    \/ \E sender \in Addr, subject \in Subjects, t \in Types, s \in Scores,
          w \in Weights : IssueEncryptedVC(sender, subject, t, s, w)
    \/ \E sender \in Addr, subject \in Subjects, s \in Scores :
          IssueAnonymousAttestation(sender, subject, s)
    \/ \E sender \in Addr, subject \in Subjects, s \in Scores :
          IssueCrossPlatformCredential(sender, subject, s)
    \/ \E sender \in Addr, subject \in Subjects, s \in Scores :
          IssueCommunityEndorsement(sender, subject, s)
    \/ \E sender \in Addr, subject \in Subjects, s \in Scores :
          IssueSkillCertification(sender, subject, s)
    \/ \E sender \in Addr, subject \in Subjects, s \in Scores :
          IssueDIDScore(sender, subject, s)
    \/ \E sender \in Addr, vcId \in IdSpace : RevokeCredential(sender, vcId)
    \/ \E vcId \in IdSpace : GetEncryptedVC(vcId)
    \/ \E sender \in Addr, subject \in Subjects :
          ProtectUserPrivacy(sender, subject)
    \/ \E subject \in Subjects : UpdateReputationProfile(subject)
    \/ \E subject \in Subjects, m \in Thresholds :
          GenerateReputationProof(subject, m)
    \/ \E subject \in Subjects, m \in Thresholds, p \in Periods :
          GenerateTimeBoundProof(subject, m, p)
    \/ \E subject \in Subjects, reqs \in Requirements :
          GenerateCompositeProof(subject, reqs)
    \/ \E proofId \in IdSpace : RequestProofDecryption(proofId)
    \/ \E requestId \in ReqSpace, sigOk \in BOOLEAN :
          \E cleartexts \in CallbackCleartexts(requestId) :
             DecryptReputationProof(requestId, cleartexts, sigOk)
    \/ Settle

\* every function of the contract, the calls of one block: block.timestamp
\* stays what it was at deployment
Spec == Init /\ [][Next]_vars

\* the same calls spread over several blocks
NextClock == Next \/ Tick

SpecClock == Init /\ [][NextClock]_vars

\* the functions that read or write verifiableCredentials, userCredentials
\* and trustedIssuers, with generateReputationProof taking ids from the same
\* counter
NextStore ==
    \/ \E sender \in Addr, issuer \in Issuers : AuthorizeIssuer(sender, issuer)
    \/ \E sender \in Addr, subject \in Subjects, t \in Types, s \in Scores,
          w \in Weights : IssueEncryptedVC(sender, subject, t, s, w)
    \/ \E sender \in Addr, subject \in Subjects, s \in Scores :
          IssueAnonymousAttestation(sender, subject, s)
    \/ \E sender \in Addr, subject \in Subjects, s \in Scores :
          IssueCrossPlatformCredential(sender, subject, s)
    \/ \E sender \in Addr, subject \in Subjects, s \in Scores :
          IssueCommunityEndorsement(sender, subject, s)
    \/ \E sender \in Addr, subject \in Subjects, s \in Scores :
          IssueSkillCertification(sender, subject, s)
    \/ \E sender \in Addr, subject \in Subjects, s \in Scores :
          IssueDIDScore(sender, subject, s)
    \/ \E sender \in Addr, vcId \in IdSpace : RevokeCredential(sender, vcId)
    \/ \E vcId \in IdSpace : GetEncryptedVC(vcId)
    \/ \E subject \in Subjects, m \in Thresholds :
          GenerateReputationProof(subject, m)
    \/ Settle

SpecStore == Init /\ [][NextStore]_vars

\* the functions that read or write reputationProfiles, reputationProofs,
\* decryptedProofs and requestToProofId, with issueEncryptedVC and
\* revokeCredential supplying the credentials they read
NextLedger ==
    \/ \E sender \in Addr, issuer \in Issuers : AuthorizeIssuer(sender, issuer)
    \/ \E sender \in Addr, subject \in Subjects, t \in Types, s \in Scores,
          w \in Weights : IssueEncryptedVC(sender, subject, t, s, w)
    \/ \E sender \in Addr, vcId \in IdSpace : RevokeCredential(sender, vcId)
    \/ \E subject \in Subjects : UpdateReputationProfile(subject)
    \/ \E subject \in Subjects, m \in Thresholds :
          GenerateReputationProof(subject, m)
    \/ \E subject \in Subjects, m \in Thresholds, p \in Periods :
          GenerateTimeBoundProof(subject, m, p)
    \/ \E subject \in Subjects, reqs \in Requirements :
          GenerateCompositeProof(subject, reqs)
    \/ \E proofId \in IdSpace : RequestProofDecryption(proofId)
    \/ \E requestId \in ReqSpace, sigOk \in BOOLEAN :
          \E cleartexts \in CallbackCleartexts(requestId) :
             DecryptReputationProof(requestId, cleartexts, sigOk)
    \/ Settle

SpecLedger == Init /\ [][NextLedger]_vars

\* the oracle answers the request it handed requestId out for: a callback
\* with the values behind the two ciphertexts submitted, and signatures that
\* check
Deliver(requestId) ==
    /\ requestId < requestCounter
    /\ LET proof == reputationProofs[requestToProofId[requestId]] IN
       DecryptReputationProof(requestId,
           <<proof.encryptedMinScore, proof.encryptedProof>>, TRUE)

\* every transaction comes to its end, and the oracle does not leave a
\* request it handed out unanswered for ever
Fairness ==
    /\ WF_vars(Settle)
    /\ \A r \in ReqSpace : SF_vars(Deliver(r))

\* the router, with the functions that store valid and invalid proofs and
\* those that decide what a proof holds; the oracle calls back with the
\* values it was asked for, and anybody calls back with signatures that do
\* not check
NextOracle ==
    \/ \E sender \in Addr, issuer \in Issuers : AuthorizeIssuer(sender, issuer)
    \/ \E sender \in Addr, subject \in Subjects, t \in Types, s \in Scores,
          w \in Weights : IssueEncryptedVC(sender, subject, t, s, w)
    \/ \E sender \in Addr, vcId \in IdSpace : RevokeCredential(sender, vcId)
    \/ \E subject \in Subjects : UpdateReputationProfile(subject)
    \/ \E subject \in Subjects, m \in Thresholds :
          GenerateReputationProof(subject, m)
    \/ \E subject \in Subjects, m \in Thresholds, p \in Periods :
          GenerateTimeBoundProof(subject, m, p)
    \/ \E proofId \in IdSpace : RequestProofDecryption(proofId)
    \/ \E requestId \in ReqSpace : Deliver(requestId)
    \/ \E requestId \in ReqSpace :
          \E cleartexts \in CallbackCleartexts(requestId) :
             DecryptReputationProof(requestId, cleartexts, FALSE)
    \/ Settle

SpecOracle == Init /\ [][NextOracle]_vars /\ Fairness

\* the functions that decide what updateReputationProfile computes, called
\* with scores and weights that make the weighted mean differ from each
\* score, and generateReputationProof taking ids in between
NextProfile ==
    \/ \E sender \in Addr, issuer \in Issuers : AuthorizeIssuer(sender, issuer)
    \/ \E sender \in Addr, subject \in Subjects, t \in Types,
          s \in MeanScores, w \in MeanWeights :
          IssueEncryptedVC(sender, subject, t, s, w)
    \/ \E sender \in Addr, vcId \in IdSpace : RevokeCredential(sender, vcId)
    \/ \E vcId \in IdSpace : GetEncryptedVC(vcId)
    \/ \E subject \in Subjects : UpdateReputationProfile(subject)
    \/ \E subject \in Subjects, m \in Thresholds :
          GenerateReputationProof(subject, m)
    \/ Settle

SpecProfile == Init /\ [][NextProfile]_vars

\* requirement lists of length 0..MaxReqs + 1 over ProofThresholds: some of
\* a list can be met while others are not
ProofRequirements == SeqsUpTo(ProofThresholds, MaxReqs + 1)

\* the functions that generate proofs from a stored profile, with the
\* functions that make the profile: recomputed or not, holding a score or 0
NextProof ==
    \/ \E sender \in Addr, issuer \in Issuers : AuthorizeIssuer(sender, issuer)
    \/ \E sender \in Addr, subject \in Subjects, t \in Types, s \in Scores,
          w \in Weights : IssueEncryptedVC(sender, subject, t, s, w)
    \/ \E sender \in Addr, vcId \in IdSpace : RevokeCredential(sender, vcId)
    \/ \E subject \in Subjects : UpdateReputationProfile(subject)
    \/ \E subject \in Subjects, m \in ProofThresholds :
          GenerateReputationProof(subject, m)
    \/ \E subject \in Subjects, reqs \in ProofRequirements :
          GenerateCompositeProof(subject, reqs)
    \/ Settle

SpecProof == Init /\ [][NextProof]_vars

\* plaintexts behind the encryptedType arguments that the diversity of a
\* list is counted over
MetricTypes == {1, 2}

\* the view functions that derive a metric from a profile and a credential
\* list, with the functions that make the profile and the list
NextMetrics ==
    \/ \E sender \in Addr, issuer \in Issuers : AuthorizeIssuer(sender, issuer)
    \/ \E sender \in Addr, subject \in Subjects, t \in MetricTypes,
          s \in MeanScores, w \in Weights :
          IssueEncryptedVC(sender, subject, t, s, w)
    \/ \E sender \in Addr, vcId \in IdSpace : RevokeCredential(sender, vcId)
    \/ \E subject \in Subjects : UpdateReputationProfile(subject)
    \/ \E subject \in Subjects : CalculateConsistency(subject)
    \/ \E subject \in Subjects : CalculateSybilResistance(subject)
    \/ Settle

SpecMetrics == Init /\ [][NextMetrics]_vars

\* plaintexts behind the encryptedType arguments that
\* calculateWeb3ReputationIndex tells apart: an ordinary type, the ecosystem
\* contribution type, the DID score type
IndexTypes == {1, 300, 400}

\* calculateWeb3ReputationIndex with the functions that make what it reads
NextIndex ==
    \/ \E sender \in Addr, issuer \in Issuers : AuthorizeIssuer(sender, issuer)
    \/ \E sender \in Addr, subject \in Subjects, t \in IndexTypes,
          s \in Scores, w \in Weights :
          IssueEncryptedVC(sender, subject, t, s, w)
    \/ \E sender \in Addr, subject \in Subjects, s \in Scores :
          IssueDIDScore(sender, subject, s)
    \/ \E subject \in Subjects : UpdateReputationProfile(subject)
    \/ \E subject \in Subjects : CalculateWeb3ReputationIndex(subject)
    \/ Settle

SpecIndex == Init /\ [][NextIndex]_vars

----------------------------------------------------------------------------
(* updateReputationProfile as a function of the credentials in storage *)

\* what tells one credential of a list from another: whom it was issued to,
\* its score and weight, and whether it was revoked since.  The credentials
\* of "bob" take every score and weight; a revoked one and one of another
\* subject stand among them.
FoldShapes ==
    [subject : {"bob"}, encryptedScore : MeanScores,
     encryptedWeight : MeanWeights, isActive : {TRUE}]
        \cup {[subject |-> "bob", encryptedScore |-> 80,
               encryptedWeight |-> 2, isActive |-> FALSE],
              [subject |-> "alice", encryptedScore |-> 80,
               encryptedWeight |-> 2, isActive |-> TRUE]}

\* the ids 1..n issued to subject `a`, in the order of issue
RECURSIVE IssuedTo(_, _, _)
IssuedTo(shape, n, a) ==
    IF n = 0 THEN << >>
    ELSE IF shape[n].subject = a
         THEN Append(IssuedTo(shape, n - 1, a), n)
         ELSE IssuedTo(shape, n - 1, a)

\* the storage after "alice" was authorized, issued n credentials of type 1
\* in one block and revoked some of them; no profile was recomputed yet
InitFold ==
    \E n \in 0 .. MaxFold : \E shape \in [1 .. n -> FoldShapes] :
        /\ InitFrontend
        /\ vcCount = n
        /\ verifiableCredentials =
             [i \in 0 .. MaxFold |->
                IF i \in 1 .. n
                THEN [id |-> i, issuer |-> "alice",
                      subject |-> shape[i].subject,
                      encryptedType |-> 1,
                      encryptedScore |-> shape[i].encryptedScore,
                      encryptedWeight |-> shape[i].encryptedWeight,
                      timestamp |-> 0, isActive |-> shape[i].isActive]
                ELSE ZeroVC]
        /\ userCredentials = [a \in Addr \cup Subjects |-> IssuedTo(shape, n, a)]
        /\ reputationProfiles =
             [a \in Addr \cup Subjects |->
                IF IssuedTo(shape, n, a) # << >> THEN FreshProfile
                ELSE ZeroProfile]
        /\ reputationProofs = [i \in 0 .. MaxFold |-> ZeroProof]
        /\ decryptedProofs = [i \in 0 .. MaxFold |-> ZeroDecrypted]
        /\ trustedIssuers = [a \in Addr |-> a = "alice"]
        /\ requestToProofId = [r \in ReqSpace |-> 0]
        /\ systemAdmin = Deployer
        /\ requestCounter = 0
        /\ blockTime = 0
        /\ last = NoCall

NextFold ==
    \/ \E subject \in Subjects : UpdateReputationProfile(subject)
    \/ Settle

SpecFold == InitFold /\ [][NextFold]_vars

----------------
(* Vocabulary of the properties *)

\* the six functions that issue a credential
IssueOps == {"issueEncryptedVC", "issueAnonymousAttestation",
             "issueCrossPlatformCredential", "issueCommunityEndorsement",
             "issueSkillCertification", "issueDIDScore"}

\* the step is a call of `op`
Called(op) == last = NoCall /\ last'.op = op

CalledOneOf(ops) == last = NoCall /\ last'.op \in ops

\* id names a stored credential
IsCredential(id) == id \in 1 .. vcCount /\ verifiableCredentials[id].id = id

\* id was allocated, and to a proof
IsProofId(id) == id \in 1 .. vcCount /\ verifiableCredentials[id].id = 0

\* some credential was issued to subject
HasCredential(subject) ==
    \E id \in 1 .. vcCount : verifiableCredentials[id].subject = subject

\* the ids of the active credentials issued to subject
ActiveOf(subject) ==
    {id \in DOMAIN verifiableCredentials :
        /\ verifiableCredentials[id].id = id
        /\ id # 0
        /\ verifiableCredentials[id].subject = subject
        /\ verifiableCredentials[id].isActive}

\* the sum of f[x] over the finite set S
RECURSIVE SumOver(_, _)
SumOver(S, f) ==
    IF S = {} THEN 0
    ELSE LET x == CHOOSE y \in S : TRUE IN f[x] + SumOver(S \ {x}, f)

\* the stored profile of subject is what updateReputationProfile would
\* store now
Recomputed(subject) == reputationProfiles[subject] = UpdatedProfile(subject)

\* totalScore, trustLevel and credentialCount of a profile
ProfileFields(profile) ==
    <<profile.encryptedTotalScore, profile.encryptedTrustLevel,
      profile.encryptedCredentialCount>>

\* the list of credential ids without id
Without(credentials, id) == SelectSeq(credentials, LAMBDA x : x # id)

\* totalScore, trustLevel and credentialCount that updateReputationProfile
\* stores for a subject whose list of credentials is `credentials`
FieldsOver(credentials) ==
    LET sums == FoldCredentials(credentials, 1, 0, 0, 0)
        total == sums[1] \div (IF sums[2] >= 1 THEN sums[2] ELSE 1)
    IN  <<total, (total \div 10) + (sums[3] \div 5), sums[3]>>

\* type, score and weight that a call of an issuing function asks to store
RequestedFields(call) ==
    CASE call.op = "issueEncryptedVC" ->
           <<call.args[2], call.args[3], call.args[4]>>
      [] call.op = "issueAnonymousAttestation" -> <<0, call.args[2], 1>>
      [] call.op = "issueCrossPlatformCredential" -> <<999, call.args[2], 2>>
      [] call.op = "issueCommunityEndorsement" -> <<100, call.args[2], 3>>
      [] call.op = "issueSkillCertification" -> <<200, call.args[2], 2>>
      [] call.op = "issueDIDScore" -> <<400, call.args[2], 3>>

----------------------------------------------------------------------------
(* C1: a call of any of the six issuing functions by a sender that is not *)
(* on the allow-list reverts with "Not trusted issuer" and writes nothing, *)
(* and whenever a credential appears in storage its issuer is on the       *)
(* allow-list of the state the call was made in.                           *)
C1_IssuingRequiresTrustedIssuer ==
    [][ /\ (CalledOneOf(IssueOps) /\ ~trustedIssuers[last'.sender])
              => (last'.result = "Not trusted issuer" /\ UNCHANGED storage)
        /\ \A id \in IdSpace :
              (verifiableCredentials[id].id = 0
                 /\ verifiableCredentials'[id].id # 0)
              => /\ verifiableCredentials'[id].issuer \in Addr
                 /\ trustedIssuers[verifiableCredentials'[id].issuer]
      ]_vars

\* C1 witness: the entry point that carries no modifier of its own has turned
\* away a sender that is not on the allow-list, with a credential in storage
C1_Witness ==
    /\ last.op = "issueCommunityEndorsement"
    /\ last.result = "Not trusted issuer"
    /\ ~trustedIssuers[last.sender]
    /\ \E id \in IdSpace : IsCredential(id)

(* C2: the allow-list changes only in a successful authorizeIssuer call     *)
(* sent by systemAdmin; authorizeIssuer from any other sender reverts with *)
(* "Not admin" and leaves the allow-list as it was.                         *)
C2_AllowListOnlyByAdmin ==
    [][ /\ trustedIssuers' # trustedIssuers
              => /\ Called("authorizeIssuer")
                 /\ last'.result = "ok"
                 /\ last'.sender = systemAdmin
                 /\ trustedIssuers' =
                      [trustedIssuers EXCEPT ![last'.args[1]] = TRUE]
        /\ (Called("authorizeIssuer") /\ last'.sender # systemAdmin)
              => (last'.result = "Not admin" /\ trustedIssuers' = trustedIssuers)
      ]_vars

\* C2 witness: a sender other than the admin was turned away by
\* authorizeIssuer, in a state where the admin has authorized somebody
C2_Witness ==
    /\ last.op = "authorizeIssuer"
    /\ last.sender # systemAdmin
    /\ last.result = "Not admin"
    /\ \E a \in Addr : trustedIssuers[a]

(* C3: a successful call of an issuing function stores exactly one new      *)
(* credential, under id vcCount + 1, active, with the sender as issuer and  *)
(* the subject, type, score and weight asked for, and appends that id to    *)
(* the subject's list; every other credential slot and every other          *)
(* subject's list stay as they were.                                        *)
C3_IssueStoresOneCredential ==
    [][ (CalledOneOf(IssueOps) /\ last'.result = "ok")
          => LET newId == vcCount + 1
                 subject == last'.args[1]
                 fields == RequestedFields(last')
                 vc == verifiableCredentials'[newId]
             IN  /\ vcCount' = newId
                 /\ vc.id = newId
                 /\ vc.isActive
                 /\ vc.issuer = last'.sender
                 /\ vc.subject = subject
                 /\ vc.encryptedType = fields[1]
                 /\ vc.encryptedScore = fields[2]
                 /\ vc.encryptedWeight = fields[3]
                 /\ \A id \in IdSpace \ {newId} :
                       verifiableCredentials'[id] = verifiableCredentials[id]
                 /\ userCredentials'[subject] =
                       Append(userCredentials[subject], newId)
                 /\ \A other \in DOMAIN userCredentials \ {subject} :
                       userCredentials'[other] = userCredentials[other]
      ]_vars

\* C3 witness: an issuing call has just stored credential 2 for one subject
\* while credential 1 belongs to another subject
C3_Witness ==
    /\ last.op \in IssueOps
    /\ last.result = "ok"
    /\ vcCount = 2
    /\ IsCredential(1)
    /\ IsCredential(2)
    /\ verifiableCredentials[2].subject = last.args[1]
    /\ verifiableCredentials[1].subject # verifiableCredentials[2].subject

(* C4: a subject's profile is initialized exactly when some credential has *)
(* been issued to the subject, and an initialized profile stays so.         *)
C4_ProfileInitializedIffIssued ==
    /\ [](\A subject \in DOMAIN reputationProfiles :
             reputationProfiles[subject].isInitialized <=> HasCredential(subject))
    /\ [][\A subject \in DOMAIN reputationProfiles :
             reputationProfiles[subject].isInitialized
               => reputationProfiles'[subject].isInitialized]_vars

\* C4 witness: one subject's profile is initialized although every credential
\* of the subject is revoked and the profile was recomputed, while another
\* subject has none
C4_Witness ==
    /\ last.op = "updateReputationProfile"
    /\ last.result = "ok"
    /\ reputationProfiles[last.args[1]].isInitialized
    /\ HasCredential(last.args[1])
    /\ \A id \in IdSpace :
          IsCredential(id) => ~verifiableCredentials[id].isActive
    /\ \E other \in Subjects : ~reputationProfiles[other].isInitialized

(* C5: revokeCredential on a stored credential reverts with "Not issuer"   *)
(* when the sender is not the issuer recorded on it, writing nothing; when *)
(* the sender is the recorded issuer the call succeeds and the credential   *)
(* is inactive afterwards.                                                  *)
C5_RevokeOnlyByIssuer ==
    [][ (Called("revokeCredential") /\ IsCredential(last'.args[1]))
          => LET vcId == last'.args[1] IN
             IF verifiableCredentials[vcId].issuer # last'.sender
             THEN last'.result = "Not issuer" /\ UNCHANGED storage
             ELSE /\ last'.result = "ok"
                  /\ ~verifiableCredentials'[vcId].isActive
      ]_vars

\* C5 witness: a sender that is not the recorded issuer was turned away and
\* the credential is still active
C5_Witness ==
    /\ last.op = "revokeCredential"
    /\ last.result = "Not issuer"
    /\ IsCredential(last.args[1])
    /\ verifiableCredentials[last.args[1]].issuer # last.sender
    /\ verifiableCredentials[last.args[1]].isActive

(* C6, as claimed: revokeCredential on an id that names no credential     *)
(* (never allocated, or allocated to a proof) fails with an outcome of its *)
(* own, which is not the "Not issuer" outcome of a sender that is not the  *)
(* issuer.                                                                 *)
C6_UnknownIdHasOwnOutcome ==
    (last.op = "revokeCredential" /\ ~IsCredential(last.args[1]))
       => (last.result # "ok" /\ last.result # "Not issuer")

(* C6, amended: revokeCredential on an id that names no credential reverts *)
(* with "Not issuer", the outcome a sender that is not the issuer gets,    *)
(* and writes nothing.                                                     *)
C6_UnknownIdRejectedAsNotIssuer ==
    [][ (Called("revokeCredential") /\ ~IsCredential(last'.args[1]))
          => (last'.result = "Not issuer" /\ UNCHANGED storage)
      ]_vars

\* C6 witness: revokeCredential was turned away on an id allocated to a proof
C6_Witness ==
    /\ last.op = "revokeCredential"
    /\ last.result = "Not issuer"
    /\ IsProofId(last.args[1])

(* C7: revokeCredential by the issuer on a credential that is already      *)
(* inactive succeeds and leaves the storage exactly as the first           *)
(* revocation left it.                                                     *)
C7_RevokeTwiceIsRevokeOnce ==
    [][ (/\ Called("revokeCredential")
         /\ IsCredential(last'.args[1])
         /\ verifiableCredentials[last'.args[1]].issuer = last'.sender
         /\ ~verifiableCredentials[last'.args[1]].isActive)
          => /\ last'.result = "ok"
             /\ ~verifiableCredentials'[last'.args[1]].isActive
             /\ UNCHANGED storage
      ]_vars

\* C7 witness: a credential was revoked, and its issuer can call
\* revokeCredential on it again, succeeding with no write
C7_Witness ==
    /\ last = NoCall
    /\ \E id \in IdSpace :
          /\ IsCredential(id)
          /\ ~verifiableCredentials[id].isActive
          /\ ENABLED (/\ RevokeCredential(verifiableCredentials[id].issuer, id)
                      /\ last'.result = "ok"
                      /\ UNCHANGED storage)

(* C8, as claimed: getEncryptedVC fails for every id that names no stored  *)
(* credential and returns the stored fields for every id that does.        *)
C8_GetFailsOnUnknownId ==
    last.op = "getEncryptedVC"
       => LET vc == verifiableCredentials[last.args[1]] IN
          IF IsCredential(last.args[1])
          THEN /\ last.result = "ok"
               /\ last.ret = <<vc.issuer, vc.subject, vc.encryptedType,
                               vc.encryptedScore, vc.encryptedWeight,
                               vc.timestamp, vc.isActive>>
          ELSE last.result # "ok"

(* C8, amended: getEncryptedVC never fails; it returns the stored fields   *)
(* for an id that names a stored credential, and the all-zero fields (zero *)
(* issuer and subject, zero type, score and weight, timestamp 0, inactive) *)
(* for an id that names none.                                              *)
C8_GetReturnsSlot ==
    last.op = "getEncryptedVC"
       => LET vc == verifiableCredentials[last.args[1]] IN
          /\ last.result = "ok"
          /\ last.ret =
               IF IsCredential(last.args[1])
               THEN <<vc.issuer, vc.subject, vc.encryptedType,
                      vc.encryptedScore, vc.encryptedWeight,
                      vc.timestamp, vc.isActive>>
               ELSE <<ZeroAddr, ZeroAddr, 0, 0, 0, 0, FALSE>>

\* C8 witness: getEncryptedVC has returned the all-zero fields for an id
\* allocated to a proof, while a credential is stored under another id
C8_Witness ==
    /\ last.op = "getEncryptedVC"
    /\ last.result = "ok"
    /\ IsProofId(last.args[1])
    /\ last.ret = <<ZeroAddr, ZeroAddr, 0, 0, 0, 0, FALSE>>
    /\ \E id \in IdSpace : IsCredential(id)

(* C9: in every step, whatever is called and however time passes, a stored *)
(* credential keeps its id, issuer, subject, type, score, weight and       *)
(* timestamp and stays stored; its active flag is the only field that      *)
(* changes, and only from true to false.                                   *)
C9_CredentialImmutableButActive ==
    [][ \A id \in IdSpace :
          IsCredential(id)
            => LET old == verifiableCredentials[id]
                   new == verifiableCredentials'[id]
               IN  /\ new.id = old.id
                   /\ new.issuer = old.issuer
                   /\ new.subject = old.subject
                   /\ new.encryptedType = old.encryptedType
                   /\ new.encryptedScore = old.encryptedScore
                   /\ new.encryptedWeight = old.encryptedWeight
                   /\ new.timestamp = old.timestamp
                   /\ (new.isActive => old.isActive)
      ]_vars

\* C9 witness: a credential issued in an earlier block has just been revoked
\* by its issuer
C9_Witness ==
    /\ last.op = "revokeCredential"
    /\ last.result = "ok"
    /\ IsCredential(last.args[1])
    /\ ~verifiableCredentials[last.args[1]].isActive
    /\ verifiableCredentials[last.args[1]].timestamp < blockTime

(* C10: for a subject to whom no credential was issued,                    *)
(* updateReputationProfile, generateReputationProof and                    *)
(* generateCompositeProof revert with "Profile not initialized", allocate  *)
(* no id and write nothing.                                                *)
C10_NoCredentialNoProfile ==
    [][ (/\ CalledOneOf({"updateReputationProfile", "generateReputationProof",
                         "generateCompositeProof"})
         /\ ~HasCredential(last'.args[1]))
          => /\ last'.result = "Profile not initialized"
             /\ vcCount' = vcCount
             /\ UNCHANGED storage
      ]_vars

\* C10 witness: generateCompositeProof was turned away for a subject without
\* credentials while another subject has one
C10_Witness ==
    /\ last.op = "generateCompositeProof"
    /\ last.result = "Profile not initialized"
    /\ ~HasCredential(last.args[1])
    /\ \E id \in IdSpace : IsCredential(id)

(* C11: a successful updateReputationProfile(subject) leaves the profile   *)
(* with credentialCount = the number of the subject's active credentials,  *)
(* totalScore = (sum of score * weight over them) divided, rounding down,  *)
(* by max(sum of their weights, 1), and trustLevel = totalScore \div 10 +   *)
(* credentialCount \div 5 of these new values; inactive credentials and     *)
(* credentials of other subjects count for nothing.                        *)
C11_RecomputeFormula ==
    [][ (Called("updateReputationProfile") /\ last'.result = "ok")
          => LET subject == last'.args[1]
                 active == ActiveOf(subject)
                 count == Cardinality(active)
                 products == SumOver(active, [id \in active |->
                                 verifiableCredentials[id].encryptedScore
                                   * verifiableCredentials[id].encryptedWeight])
                 weights == SumOver(active, [id \in active |->
                                 verifiableCredentials[id].encryptedWeight])
                 total == products \div (IF weights >= 1 THEN weights ELSE 1)
                 profile == reputationProfiles'[subject]
             IN  /\ profile.encryptedCredentialCount = count
                 /\ profile.encryptedTotalScore = total
                 /\ profile.encryptedTrustLevel = (total \div 10) + (count \div 5)
                 /\ profile.isInitialized
      ]_vars

\* C11 witness: a profile was recomputed over five active credentials of
\* unequal weights, with a mean that is rounded down and a count that adds
\* to the trust level
C11_Witness ==
    /\ last.op = "updateReputationProfile"
    /\ last.result = "ok"
    /\ Cardinality(ActiveOf(last.args[1])) = 5
    /\ reputationProfiles[last.args[1]].encryptedCredentialCount = 5
    /\ reputationProfiles[last.args[1]].encryptedTotalScore = 66
    /\ reputationProfiles[last.args[1]].encryptedTrustLevel = 7

(* C12: updateReputationProfile is idempotent.  A successful call leaves   *)
(* a profile that a further call would store again unchanged; no step      *)
(* other than the issue or the revocation of a credential ends that; and a *)
(* call made while it lasts changes none of totalScore, trustLevel and     *)
(* credentialCount.                                                        *)
C12_RecomputeIdempotent ==
    [][ \A subject \in Subjects :
          /\ (/\ Called("updateReputationProfile")
              /\ last'.args[1] = subject
              /\ last'.result = "ok") => Recomputed(subject)'
          /\ (/\ Recomputed(subject)
              /\ ~CalledOneOf(IssueOps \cup {"revokeCredential"}))
                 => Recomputed(subject)'
          /\ (/\ Recomputed(subject)
              /\ Called("updateReputationProfile")
              /\ last'.args[1] = subject)
                 => reputationProfiles'[subject] = reputationProfiles[subject]
      ]_vars

\* C12 witness: a profile holds the recomputed mean of two credentials of
\* unequal weights, and the profile can be recomputed again, which changes
\* no storage
C12_Witness ==
    /\ last = NoCall
    /\ \E subject \in Subjects :
          /\ Cardinality(ActiveOf(subject)) = 2
          /\ reputationProfiles[subject].encryptedCredentialCount = 2
          /\ reputationProfiles[subject].encryptedTotalScore = 66
          /\ ENABLED (/\ UpdateReputationProfile(subject)
                      /\ last'.result = "ok"
                      /\ UNCHANGED storage)

(* C13: updateReputationProfile stores, for a subject with a revoked       *)
(* credential, the totalScore, trustLevel and credentialCount that it      *)
(* would store were that credential not in the subject's list; active      *)
(* scores 80 and 60 of weight 1 give 70 and count 2, and 80 alone gives 80 *)
(* and count 1; revokeCredential changes nothing of the credential but the *)
(* active flag, and getEncryptedVC returns the fields of a revoked         *)
(* credential with active = false.                                         *)
C13_RevokedCountsForNothing ==
    [][ /\ (Called("updateReputationProfile") /\ last'.result = "ok")
              => LET subject == last'.args[1]
                     fields == ProfileFields(reputationProfiles'[subject])
                     scores == {<<verifiableCredentials[id].encryptedScore,
                                  verifiableCredentials[id].encryptedWeight>> :
                                   id \in ActiveOf(subject)}
                 IN  /\ \A id \in IdSpace :
                           (/\ IsCredential(id)
                            /\ verifiableCredentials[id].subject = subject
                            /\ ~verifiableCredentials[id].isActive)
                              => fields = FieldsOver(Without(userCredentials[subject], id))
                     /\ (scores = {<<80, 1>>, <<60, 1>>}
                           /\ Cardinality(ActiveOf(subject)) = 2)
                           => fields = <<70, 7, 2>>
                     /\ (scores = {<<80, 1>>} /\ Cardinality(ActiveOf(subject)) = 1)
                           => fields = <<80, 8, 1>>
        /\ (Called("revokeCredential") /\ last'.result = "ok")
              => verifiableCredentials'[last'.args[1]] =
                   [verifiableCredentials[last'.args[1]] EXCEPT !.isActive = FALSE]
        /\ (Called("getEncryptedVC") /\ IsCredential(last'.args[1]))
              => LET vc == verifiableCredentials[last'.args[1]] IN
                 /\ last'.result = "ok"
                 /\ last'.ret = <<vc.issuer, vc.subject, vc.encryptedType,
                                  vc.encryptedScore, vc.encryptedWeight,
                                  vc.timestamp, vc.isActive>>
      ]_vars

\* C13 witness: of two credentials of one subject, scores 80 and 60 of
\* weight 1, the second was revoked, and the profile was recomputed to 80
\* and count 1
C13_Witness ==
    /\ last.op = "updateReputationProfile"
    /\ last.result = "ok"
    /\ userCredentials[last.args[1]] = <<1, 2>>
    /\ verifiableCredentials[1].encryptedScore = 80
    /\ verifiableCredentials[1].encryptedWeight = 1
    /\ verifiableCredentials[1].isActive
    /\ verifiableCredentials[2].encryptedScore = 60
    /\ verifiableCredentials[2].encryptedWeight = 1
    /\ ~verifiableCredentials[2].isActive
    /\ ProfileFields(reputationProfiles[last.args[1]]) = <<80, 8, 1>>

(* C14: the stored totalScore, trustLevel and credentialCount of a subject *)
(* change only in a successful updateReputationProfile of that subject: a  *)
(* successful issue to a subject, whose profile may hold recomputed        *)
(* values, and a revocation leave them as they were.                       *)
C14_ProfileStaleUntilRecomputed ==
    [][ /\ \A subject \in DOMAIN reputationProfiles :
              ProfileFields(reputationProfiles'[subject])
                  # ProfileFields(reputationProfiles[subject])
                => /\ Called("updateReputationProfile")
                   /\ last'.args[1] = subject
                   /\ last'.result = "ok"
        /\ (CalledOneOf(IssueOps) /\ last'.result = "ok"
              /\ reputationProfiles[last'.args[1]].isInitialized)
              => reputationProfiles' = reputationProfiles
        /\ Called("revokeCredential") => reputationProfiles' = reputationProfiles
      ]_vars

\* C14 witness: a second credential was just issued to a subject whose
\* profile still holds what was recomputed from the first one
C14_Witness ==
    /\ last.op \in IssueOps
    /\ last.result = "ok"
    /\ Cardinality(ActiveOf(last.args[1])) = 2
    /\ ProfileFields(reputationProfiles[last.args[1]]) = <<80, 8, 1>>
    /\ ~Recomputed(last.args[1])

(* C15: a successful generateReputationProof(subject, t) returns the id    *)
(* vcCount + 1, under which nothing was stored, and stores there a proof   *)
(* with isValid = true, encryptedMinScore = t and encryptedProof = the     *)
(* totalScore stored in the subject's profile if that is >= t, else 0,     *)
(* and a DecryptedProof that is not revealed and holds zeros; the profile  *)
(* is read as stored, and nothing else is written.                         *)
C15_ProofFromStoredScore ==
    [][ (Called("generateReputationProof") /\ last'.result = "ok")
          => LET subject == last'.args[1]
                 t == last'.args[2]
                 stored == reputationProfiles[subject].encryptedTotalScore
                 newId == vcCount + 1
             IN  /\ vcCount' = newId
                 /\ last'.ret = <<newId>>
                 /\ verifiableCredentials[newId] = ZeroVC
                 /\ reputationProofs[newId] = ZeroProof
                 /\ reputationProofs'[newId] =
                      [encryptedMinScore |-> t,
                       encryptedProof |-> IF stored >= t THEN stored ELSE 0,
                       isValid |-> TRUE]
                 /\ decryptedProofs'[newId] =
                      [minScore |-> 0, proofValue |-> 0, isRevealed |-> FALSE]
                 /\ \A id \in IdSpace \ {newId} :
                       /\ reputationProofs'[id] = reputationProofs[id]
                       /\ decryptedProofs'[id] = decryptedProofs[id]
                 /\ UNCHANGED <<verifiableCredentials, reputationProfiles,
                                userCredentials, trustedIssuers,
                                requestToProofId, systemAdmin>>
      ]_vars

\* C15 witness: a proof against threshold 70 was generated for a subject
\* whose profile was recomputed to 80 before the subject's only credential
\* was revoked: the proof holds the stored 80, not the 0 of a fresh fold
C15_Witness ==
    /\ last.op = "generateReputationProof"
    /\ last.result = "ok"
    /\ last.args[2] = 70
    /\ ActiveOf(last.args[1]) = {}
    /\ ~Recomputed(last.args[1])
    /\ reputationProfiles[last.args[1]].encryptedTotalScore = 80
    /\ reputationProofs[last.ret[1]] =
          [encryptedMinScore |-> 70, encryptedProof |-> 80, isValid |-> TRUE]
    /\ ~decryptedProofs[last.ret[1]].isRevealed

C17_CompositeSumOfMet ==
    [][ (/\ Called("generateCompositeProof")
         /\ reputationProfiles[last'.args[1]].isInitialized)
          => LET thresholds == last'.args[2]
                 total == reputationProfiles[last'.args[1]].encryptedTotalScore
                 met == {i \in 1 .. Len(thresholds) : total >= thresholds[i]}
                 newId == vcCount + 1
             IN  /\ last'.result = "ok"
                 /\ last'.ret = <<newId>>
                 /\ vcCount' = newId
                 /\ reputationProofs'[newId] =
                      [encryptedMinScore |->
                           IF met = 1 .. Len(thresholds) THEN 1 ELSE 0,
                       encryptedProof |->
                           SumOver(met, [i \in met |-> thresholds[i]]),
                       isValid |-> TRUE]
                 /\ decryptedProofs'[newId] =
                      [minScore |-> 0, proofValue |-> 0, isRevealed |-> FALSE]
      ]_vars

\* C17 witness: a composite proof over two thresholds, of which the stored
\* score 80 meets only the second, was stored valid with sum 80 and flag 0
C17_Witness ==
    /\ last.op = "generateCompositeProof"
    /\ last.result = "ok"
    /\ last.args[2] = <<90, 80>>
    /\ reputationProfiles[last.args[1]].encryptedTotalScore = 80
    /\ reputationProofs[last.ret[1]] =
          [encryptedMinScore |-> 0, encryptedProof |-> 80, isValid |-> TRUE]

\* id was allocated to a proof that is not valid: in this contract, a proof
\* of generateTimeBoundProof
IsInvalidatedProof(id) ==
    /\ IsProofId(id)
    /\ ~reputationProofs[id].isValid

C19_RequestRevealOutcomes ==
    [][ Called("requestProofDecryption")
          => LET proofId == last'.args[1] IN
             IF ~(IsProofId(proofId) /\ reputationProofs[proofId].isValid)
             THEN /\ last'.result = "Invalid proof"
                  /\ UNCHANGED <<storage, requestCounter>>
             ELSE IF decryptedProofs[proofId].isRevealed
             THEN /\ last'.result = "Already decrypted"
                  /\ UNCHANGED <<storage, requestCounter>>
             ELSE /\ last'.result = "ok"
                  /\ \E reqId \in ReqSpace :
                        /\ last'.ret = <<reqId>>
                        /\ reqId >= requestCounter
                        /\ requestToProofId[reqId] = 0
                        /\ requestToProofId' =
                             [requestToProofId EXCEPT ![reqId] = proofId]
                  /\ requestCounter' > requestCounter
                  /\ UNCHANGED <<vcCount, verifiableCredentials,
                                 reputationProfiles, reputationProofs,
                                 decryptedProofs, userCredentials,
                                 trustedIssuers, systemAdmin>>
      ]_vars

\* C19 witness: requestProofDecryption was turned away with "Already
\* decrypted" on a proof that an earlier request and its callback revealed
C19_Witness ==
    /\ last.op = "requestProofDecryption"
    /\ last.result = "Already decrypted"
    /\ IsProofId(last.args[1])
    /\ reputationProofs[last.args[1]].isValid
    /\ decryptedProofs[last.args[1]].isRevealed
    /\ requestCounter = 1
    /\ requestToProofId[0] = last.args[1]

(* C20: decryptReputationProof with a requestId that no successful        *)
(* requestProofDecryption was given reverts with "Invalid request",        *)
(* whatever the cleartexts are and whether or not the signatures check,    *)
(* and leaves every DecryptedProof, and all other storage, as it was.      *)
C20_UnknownRequestRejected ==
    [][ (/\ Called("decryptReputationProof")
         /\ last'.args[1] \notin 0 .. (requestCounter - 1))
          => /\ last'.result = "Invalid request"
             /\ decryptedProofs' = decryptedProofs
             /\ UNCHANGED <<storage, requestCounter>>
      ]_vars

\* C20 witness: a callback that passes the signature check was turned away
\* for a request id never given out, while another request waits for its
\* callback
C20_Witness ==
    /\ last.op = "decryptReputationProof"
    /\ last.result = "Invalid request"
    /\ last.args[3]
    /\ last.args[1] >= requestCounter
    /\ requestCounter = 1
    /\ IsProofId(requestToProofId[0])
    /\ ~decryptedProofs[requestToProofId[0]].isRevealed

(* C21: once decryptReputationProof has succeeded for a requestId, the    *)
(* request keeps naming the same proof and the proof stays revealed, and   *)
(* every further decryptReputationProof for a request whose proof is       *)
(* revealed reverts with "Already decrypted", whatever cleartexts it       *)
(* carries and even when the signatures check, leaving minScore,           *)
(* proofValue and isRevealed as the first delivery wrote them.             *)
C21_SecondDeliveryRejected ==
    [][ /\ (Called("decryptReputationProof") /\ last'.result = "ok")
              => decryptedProofs'[requestToProofId[last'.args[1]]].isRevealed
        /\ \A r \in ReqSpace :
              requestToProofId[r] # 0
                => requestToProofId'[r] = requestToProofId[r]
        /\ (/\ Called("decryptReputationProof")
            /\ requestToProofId[last'.args[1]] # 0
            /\ decryptedProofs[requestToProofId[last'.args[1]]].isRevealed)
              => /\ last'.result = "Already decrypted"
                 /\ decryptedProofs' = decryptedProofs
                 /\ UNCHANGED <<storage, requestCounter>>
      ]_vars

\* C21 witness: the only request made so far was answered and its proof
\* revealed as (70, 80); a second delivery for it, with other cleartexts and
\* signatures that check, was turned away and the revealed values stand
C21_Witness ==
    /\ last.op = "decryptReputationProof"
    /\ last.result = "Already decrypted"
    /\ last.args[3]
    /\ last.args[1] = 0
    /\ requestCounter = 1
    /\ last.args[2] = <<7, 7>>
    /\ decryptedProofs[requestToProofId[0]] =
          [minScore |-> 70, proofValue |-> 80, isRevealed |-> TRUE]

\* some successful requestProofDecryption was made for proof id
RevealRequested(id) ==
    \E r \in 0 .. (requestCounter - 1) : requestToProofId[r] = id

(* C22: a proof is revealed only if it is an allocated, valid proof for    *)
(* which requestProofDecryption succeeded before; isRevealed goes from     *)
(* false to true only in a successful decryptReputationProof for a request *)
(* of that proof, which does set it; once it is true the DecryptedProof    *)
(* never changes again; and decryptReputationProof succeeds only while the *)
(* proof is not revealed, so of the callbacks of several requests for one  *)
(* proof at most one succeeds.                                             *)
C22_SealedRequestedRevealed ==
    /\ [](\A id \in IdSpace :
             decryptedProofs[id].isRevealed
               => /\ IsProofId(id)
                  /\ reputationProofs[id].isValid
                  /\ RevealRequested(id))
    /\ [][ /\ \A id \in IdSpace :
                 decryptedProofs[id].isRevealed
                   => decryptedProofs'[id] = decryptedProofs[id]
           /\ \A id \in IdSpace :
                 (~decryptedProofs[id].isRevealed
                    /\ decryptedProofs'[id].isRevealed)
                   => /\ Called("decryptReputationProof")
                      /\ last'.result = "ok"
                      /\ requestToProofId[last'.args[1]] = id
                      /\ RevealRequested(id)
           /\ (Called("decryptReputationProof") /\ last'.result = "ok")
                => LET id == requestToProofId[last'.args[1]] IN
                   /\ ~decryptedProofs[id].isRevealed
                   /\ decryptedProofs'[id].isRevealed
          ]_vars

\* C22 witness: requestProofDecryption succeeded twice for the same proof;
\* the proof is revealed, and a callback for the second request, with
\* signatures that check, was turned away
C22_Witness ==
    /\ requestCounter = 2
    /\ requestToProofId[0] = requestToProofId[1]
    /\ decryptedProofs[requestToProofId[0]].isRevealed
    /\ last.op = "decryptReputationProof"
    /\ last.args[1] = 1
    /\ last.args[3]
    /\ last.result = "Already decrypted"

(* C23: a decryptReputationProof whose signatures do not check for its    *)
(* requestId and cleartexts never succeeds and writes nothing: for a       *)
(* request of a valid proof not yet revealed it reverts in                 *)
(* FHE.checkSignatures, before the cleartexts are decoded.  So whenever a  *)
(* DecryptedProof changes and comes out revealed, the step is a            *)
(* decryptReputationProof for a request of that proof whose signatures     *)
(* checked, and the two values stored are the cleartexts of that call.     *)
C23_VerifiedBeforeTrusted ==
    [][ /\ (Called("decryptReputationProof") /\ ~last'.args[3])
              => /\ last'.result # "ok"
                 /\ decryptedProofs' = decryptedProofs
                 /\ UNCHANGED <<storage, requestCounter>>
                 /\ LET id == requestToProofId[last'.args[1]] IN
                    (id # 0 /\ ~decryptedProofs[id].isRevealed)
                      => /\ last'.result = "Invalid signature"
                         /\ ~decryptedProofs'[id].isRevealed
        /\ \A id \in IdSpace :
              (decryptedProofs'[id] # decryptedProofs[id]
                 /\ decryptedProofs'[id].isRevealed)
                => /\ Called("decryptReputationProof")
                   /\ last'.args[3]
                   /\ requestToProofId[last'.args[1]] = id
                   /\ decryptedProofs'[id] =
                        [minScore |-> last'.args[2][1],
                         proofValue |-> last'.args[2][2],
                         isRevealed |-> TRUE]
      ]_vars

\* C23 witness: a callback for a recorded request carried the true values
\* (70, 80) of the proof but signatures that do not check; it was turned away
\* and the DecryptedProof is as generateReputationProof left it
C23_Witness ==
    /\ last.op = "decryptReputationProof"
    /\ ~last.args[3]
    /\ last.result = "Invalid signature"
    /\ LET id == requestToProofId[last.args[1]] IN
       /\ id # 0
       /\ reputationProofs[id] =
             [encryptedMinScore |-> 70, encryptedProof |-> 80, isValid |-> TRUE]
       /\ last.args[2] = <<70, 80>>
       /\ decryptedProofs[id] = ZeroDecrypted

\* something is stored under id as a credential
CredentialSlot(id) == verifiableCredentials[id] # ZeroVC

\* something is stored under id as a proof
ProofSlot(id) ==
    reputationProofs[id] # ZeroProof \/ decryptedProofs[id] # ZeroDecrypted

(* C24: in every state, nothing is stored as a credential and as a proof   *)
(* under the same id, everything stored is stored under an id of           *)
(* 1..vcCount, a credential carries the id it is stored under, and the     *)
(* list of each subject holds ids of credentials in increasing order.      *)
(* vcCount never decreases; a slot that was empty and is written in a step *)
(* has the id vcCount + 1, larger than every id given before, that is also *)
(* the new value of vcCount and the id a proof generator returns; and a    *)
(* slot keeps being the credential or the proof that it was.               *)
C24_SharedMonotoneIds ==
    /\ [](/\ \A id \in IdSpace :
                /\ ~(CredentialSlot(id) /\ ProofSlot(id))
                /\ (CredentialSlot(id) \/ ProofSlot(id)) => id \in 1 .. vcCount
                /\ CredentialSlot(id) => verifiableCredentials[id].id = id
          /\ \A a \in DOMAIN userCredentials :
                \A i \in 1 .. Len(userCredentials[a]) :
                   /\ CredentialSlot(userCredentials[a][i])
                   /\ i > 1 => userCredentials[a][i - 1] < userCredentials[a][i])
    /\ [][ /\ vcCount' >= vcCount
           /\ \A id \in IdSpace :
                 /\ (~(CredentialSlot(id) \/ ProofSlot(id))
                       /\ (CredentialSlot(id) \/ ProofSlot(id))')
                      => /\ id = vcCount + 1
                         /\ vcCount' = id
                         /\ \A older \in IdSpace :
                               (CredentialSlot(older) \/ ProofSlot(older))
                                 => older < id
                 /\ CredentialSlot(id) => CredentialSlot(id)'
                 /\ ProofSlot(id) => ProofSlot(id)'
           /\ (/\ CalledOneOf({"generateReputationProof",
                               "generateTimeBoundProof",
                               "generateCompositeProof"})
               /\ last'.result = "ok")
                => /\ last'.ret = <<vcCount + 1>>
                   /\ vcCount' = vcCount + 1
                   /\ ProofSlot(vcCount)'
          ]_vars

\* C24 witness: the counter stands at 2; id 1 went to a credential and id 2,
\* returned by the call just made, to a composite proof
C24_Witness ==
    /\ vcCount = 2
    /\ CredentialSlot(1)
    /\ ProofSlot(2)
    /\ last.op = "generateCompositeProof"
    /\ last.ret = <<2>>

\* the messages that the calls of the contract fail with
Failures == {"Not admin", "Not trusted issuer", "Not issuer",
             "Profile not initialized", "Invalid proof", "Already decrypted",
             "Invalid request", "Invalid signature"}

(* C25: a call ends with "ok" or with one of the failure messages, and a   *)
(* call that ends with a failure message leaves vcCount, the credentials,  *)
(* the per-subject lists, the profiles, the proofs, the decrypted proofs,  *)
(* the request map, the allow-list and the admin as they were, and takes   *)
(* no request id from the oracle.                                          *)
C25_FailedCallChangesNothing ==
    [][ (last = NoCall /\ last' # NoCall)
          => /\ last'.result \in Failures \cup {"ok"}
             /\ last'.result \in Failures
                  => /\ vcCount' = vcCount
                     /\ verifiableCredentials' = verifiableCredentials
                     /\ userCredentials' = userCredentials
                     /\ reputationProfiles' = reputationProfiles
                     /\ reputationProofs' = reputationProofs
                     /\ decryptedProofs' = decryptedProofs
                     /\ requestToProofId' = requestToProofId
                     /\ trustedIssuers' = trustedIssuers
                     /\ systemAdmin' = systemAdmin
                     /\ requestCounter' = requestCounter
      ]_vars

\* C25 witness: with a credential, a proof and a pending request in storage,
\* updateReputationProfile failed for a subject that has no profile
C25_Witness ==
    /\ last.op = "updateReputationProfile"
    /\ last.result = "Profile not initialized"
    /\ reputationProfiles[last.args[1]] = ZeroProfile
    /\ vcCount = 2
    /\ CredentialSlot(1)
    /\ ProofSlot(2)
    /\ requestCounter = 1
    /\ requestToProofId[0] = 2

(* C26 as stated: calculateConsistency returns 100 for every subject     *)
(* that has exactly one active credential, whatever revoked ones it has    *)
(* besides, and reverts with "Profile not initialized" for every subject   *)
(* that no credential was ever issued to.                                  *)
C26_OneActiveIsConsistent ==
    [][ Called("calculateConsistency")
          => LET subject == last'.args[1] IN
             /\ Cardinality(ActiveOf(subject)) = 1
                  => (last'.result = "ok" /\ last'.ret = <<100>>)
             /\ ~HasCredential(subject)
                  => last'.result = "Profile not initialized"
      ]_vars

(* C26 as amended: calculateConsistency never reverts and writes nothing;  *)
(* it returns 100 for every subject whose list holds fewer than two        *)
(* credentials, active or revoked: a subject with one credential ever      *)
(* issued, and a subject with none, initialized profile or not.            *)
C26_ShortListIsConsistent ==
    [][ Called("calculateConsistency")
          => LET subject == last'.args[1]
                 issued == {id \in 1 .. vcCount :
                              verifiableCredentials[id].subject = subject}
             IN  /\ last'.result = "ok"
                 /\ UNCHANGED <<storage, requestCounter>>
                 /\ Cardinality(issued) < 2 => last'.ret = <<100>>
      ]_vars

\* C26 witness: calculateConsistency returned 100 for a subject whose one
\* credential, of score 80, is active and whose profile was not recomputed
\* since it was issued
C26_Witness ==
    /\ last.op = "calculateConsistency"
    /\ last.ret = <<100>>
    /\ LET subject == last.args[1] IN
       /\ Len(userCredentials[subject]) = 1
       /\ ActiveOf(subject) = {userCredentials[subject][1]}
       /\ verifiableCredentials[userCredentials[subject][1]].encryptedScore = 80
       /\ reputationProfiles[subject] = FreshProfile

\* the credential mappings that differ from the stored one only in the
\* plaintexts behind encryptedType
TypeVariants ==
    {vcs \in [DOMAIN verifiableCredentials ->
                 {[verifiableCredentials[id] EXCEPT !.encryptedType = t] :
                     id \in DOMAIN verifiableCredentials, t \in IndexTypes}
                   \cup {ZeroVC}] :
        \A id \in DOMAIN verifiableCredentials :
           \/ vcs[id] = verifiableCredentials[id]
           \/ /\ CredentialSlot(id)
              /\ \E t \in IndexTypes :
                    vcs[id] = [verifiableCredentials[id]
                                 EXCEPT !.encryptedType = t]}

(* C27: calculateWeb3ReputationIndex, which is not the reveal callback,    *)
(* takes the same control paths whatever plaintexts lie behind the         *)
(* encrypted fields it reads: over every credential mapping that differs   *)
(* from the stored one only in the plaintexts of encryptedType, its        *)
(* branches and the iteration at which its loop is left are the same, and  *)
(* the call writes nothing.                                                *)
C27_NoPlaintextBranching ==
    [][ (Called("calculateWeb3ReputationIndex") /\ last'.result = "ok")
          => /\ UNCHANGED <<storage, requestCounter>>
             /\ \A vcs \in TypeVariants :
                   Web3IndexPaths(vcs, userCredentials[last'.args[1]])
                     = Web3IndexPaths(verifiableCredentials,
                                      userCredentials[last'.args[1]])
      ]_vars

(* C28: a request that requestProofDecryption recorded is for a valid    *)
(* proof and is never retracted: it keeps naming the same proof, which     *)
(* stays valid; a callback for it whose signatures check is turned away    *)
(* only with "Already decrypted", and succeeds whenever the proof is not   *)
(* yet revealed.  So, when the oracle does not leave a request unanswered  *)
(* for ever, every proof that a request was recorded for is eventually     *)
(* revealed.                                                               *)
C28_RequestedIsEventuallyRevealed ==
    /\ [](\A r \in 0 .. (requestCounter - 1) :
             /\ IsProofId(requestToProofId[r])
             /\ reputationProofs[requestToProofId[r]].isValid)
    /\ [][ /\ \A r \in 0 .. (requestCounter - 1) :
                 requestToProofId'[r] = requestToProofId[r]
           /\ (/\ Called("decryptReputationProof")
               /\ last'.args[1] < requestCounter
               /\ last'.args[3])
                => LET id == requestToProofId[last'.args[1]] IN
                   /\ last'.result =
                        IF decryptedProofs[id].isRevealed
                        THEN "Already decrypted" ELSE "ok"
                   /\ decryptedProofs'[id].isRevealed
          ]_vars
    /\ \A id \in IdSpace :
          RevealRequested(id) ~> decryptedProofs[id].isRevealed

\* C28 witness: two requests were recorded for one proof, and the callback
\* for the second of them, with the values of the proof, revealed it
C28_Witness ==
    /\ requestCounter = 2
    /\ requestToProofId[0] = requestToProofId[1]
    /\ last.op = "decryptReputationProof"
    /\ last.args[1] = 1
    /\ last.result = "ok"
    /\ LET id == requestToProofId[1] IN
       /\ last.args[2] = <<reputationProofs[id].encryptedMinScore,
                           reputationProofs[id].encryptedProof>>
       /\ decryptedProofs[id].isRevealed

(* C29: the credential that a successful issueAnonymousAttestation       *)
(* stores does not carry the address of the issuer that called it in its   *)
(* issuer field.                                                           *)
C29_AnonymousHidesIssuer ==
    [][ (Called("issueAnonymousAttestation") /\ last'.result = "ok")
          => /\ CredentialSlot(vcCount)'
             /\ verifiableCredentials'[vcCount'].issuer # last'.sender
      ]_vars

(* C30: calculateSybilResistance never divides by zero: whenever it is     *)
(* called for a subject whose profile is initialized, the credentialCount  *)
(* it divides by is not zero, and the call returns.                        *)
C30_SybilNeverDividesByZero ==
    [][ (/\ Called("calculateSybilResistance")
         /\ reputationProfiles[last'.args[1]].isInitialized)
          => /\ SybilDivisor(last'.args[1]) # 0
             /\ last'.result = "ok"
      ]_vars

(* C31: calculateConsistency returns a value of 0..100 for every subject *)
(* in every state, and none of its subtractions goes below zero: not       *)
(* score - average for any credential of the list, and not                 *)
(* 100 - variance / 10.                                                    *)
C31_ConsistencyWithinRange ==
    [][ Called("calculateConsistency")
          => LET subject == last'.args[1]
                 credentials == userCredentials[subject]
                 avgScore == reputationProfiles[subject].encryptedTotalScore
             IN  /\ last'.result = "ok"
                 /\ ~Wrapped(last'.ret[1])
                 /\ last'.ret[1] \in 0 .. 100
                 /\ ~FewerThanTwo(credentials)
                      => \A i \in 1 .. Len(credentials) :
                            ~Wrapped(FHE_sub(
                                verifiableCredentials[credentials[i]].encryptedScore,
                                avgScore))
      ]_vars

(***************************************************************************)
(* The score store of the frontend (frontend/web/src/App.tsx).             *)
(*                                                                         *)
(* Each client is one browser running App.tsx.  addScore and loadScores    *)
(* are async functions: every await is a point where the other client may  *)
(* run, so each await is one step and client[c].pc says which await the    *)
(* client stands at.  A client runs one of the two functions at a time.    *)
(* The store is the contract behind getData / setData / isAvailable: a     *)
(* map from keys to bytes, a key never written reading as empty bytes.     *)
(***************************************************************************)

\* contract.getData(key)
getData(key) == store[key]

\* contract.setData(key, bytes): the store after the write
setData(key, bytes) == [store EXCEPT ![key] = bytes]

\* the values contract.isAvailable() can give
isAvailable == BOOLEAN

\* let keys = []; if (keysBytes.length > 0) keys = JSON.parse(toUtf8String(keysBytes))
ParseKeys(keysBytes) == IF keysBytes.length0 THEN << >> ELSE keysBytes.json

\* Math.floor(Date.now() / 1000) of the submission that drew scoreId: the
\* clock both values are read from only moves forward
Timestamp(scoreId) == scoreId

\* { score: `FHE-${score}`, timestamp, owner: account, credentials }
ScoreData(c, score, scoreId) ==
    [score |-> <<"FHE-", score>>, timestamp |-> Timestamp(scoreId), owner |-> c,
     credentials |-> <<"kyc">>]

\* the entry loadScores pushes for a record read under `score_${key}`
ReputationScore(key, scoreData) ==
    [id |-> key, owner |-> scoreData.owner, encryptedScore |-> scoreData.score,
     lastUpdated |-> scoreData.timestamp, credentials |-> scoreData.credentials]

\* list.sort((a, b) => b.lastUpdated - a.lastUpdated): latest first, entries
\* of equal lastUpdated in the order they had
RECURSIVE SortByLastUpdated(_)
SortByLastUpdated(list) ==
    IF Len(list) = 0 THEN << >>
    ELSE LET sorted == SortByLastUpdated(SubSeq(list, 1, Len(list) - 1))
             x == list[Len(list)]
             k == Cardinality({i \in 1 .. Len(sorted) :
                                  sorted[i].lastUpdated >= x.lastUpdated})
         IN  SubSeq(sorted, 1, k) \o <<x>> \o SubSeq(sorted, k + 1, Len(sorted))

\* the ids score_keys lists in the store
ListedIds == {ParseKeys(getData(ScoreKeysKey))[i] :
                 i \in 1 .. Len(ParseKeys(getData(ScoreKeysKey)))}

\* the ids a record is stored for
RecordedIds == {id \in ScoreIds : ~getData(ScoreKey(id)).length0}

\* the position of addScore at each of its awaits
AddScorePcs == {"setRecord", "getKeys", "setKeys"}

\* the ids of the submissions stored or under way
DrawnIds ==
    RecordedIds \cup ListedIds
    \cup {client[c].scoreId : c \in {d \in Clients : client[d].pc \in AddScorePcs}}

\* the id a submission draws now: later than every id drawn before it
FreshIds == {id \in ScoreIds : \A drawn \in DrawnIds : id > drawn}

\* a step of client c that leaves the store as it is
ClientStep(c, cl) ==
    /\ client' = [client EXCEPT ![c] = cl]
    /\ UNCHANGED <<storage, requestCounter, blockTime, last, store>>

\* a step of client c that writes the store
ClientWrite(c, cl, written) ==
    /\ client' = [client EXCEPT ![c] = cl]
    /\ store' = written
    /\ UNCHANGED <<storage, requestCounter, blockTime, last>>

\* onWalletSelect: setProvider(web3Provider)
OnWalletSelect(c) ==
    /\ ~client[c].provider
    /\ ClientStep(c, [client[c] EXCEPT !.provider = TRUE])

\* the catch and finally blocks of addScore: status "error", the timer that
\* hides it, setAddingScore(false)
Catch(cl) ==
    [cl EXCEPT !.pc = "idle",
               !.scoreData = << >>,
               !.keys = << >>,
               !.transactionStatus = [visible |-> TRUE, status |-> "error"],
               !.timer = TRUE,
               !.addingScore = FALSE]

\* the end of loadScores: sort, setScores(list); when addScore called it,
\* the rest of addScore as well: the timer that hides the status and
\* setAddingScore(false)
LoadDone(cl, list) ==
    [cl EXCEPT !.pc = "idle",
               !.list = << >>,
               !.keys = << >>,
               !.scores = SortByLastUpdated(list),
               !.timer = IF cl.addingScore THEN TRUE ELSE cl.timer,
               !.addingScore = FALSE]

\* loadScores returning before it read anything: scores stay as they are
LoadReturn(cl) ==
    [cl EXCEPT !.pc = "idle",
               !.list = << >>,
               !.keys = << >>,
               !.timer = IF cl.addingScore THEN TRUE ELSE cl.timer,
               !.addingScore = FALSE]

\* the first await of addScore after the id is drawn: the record's write
FirstAwait_Index == "getKeys"
FirstAwait == "setRecord"

\* addScore up to its first write: no provider, alert and return; else
\* status "pending", the contract with signer (null: throw), the id and the
\* record to store
AddScore(c, score, signerOk) ==
    /\ client[c].pc = "idle"
    /\ IF ~client[c].provider
       THEN ClientStep(c, client[c])
       ELSE IF ~signerOk
       THEN ClientStep(c, Catch(client[c]))
       ELSE \E scoreId \in FreshIds :
               ClientStep(c, [client[c] EXCEPT
                   !.pc = FirstAwait,
                   !.addingScore = TRUE,
                   !.transactionStatus = [visible |-> TRUE, status |-> "pending"],
                   !.scoreId = scoreId,
                   !.scoreData = ScoreData(c, score, scoreId)])

\* await contract.setData(`score_${scoreId}`, toUtf8Bytes(JSON.stringify(scoreData)))
AddScore_SetRecord(c, sent) ==
    /\ client[c].pc = "setRecord"
    /\ IF ~sent
       THEN ClientStep(c, Catch(client[c]))
       ELSE ClientWrite(c, [client[c] EXCEPT !.pc = "getKeys", !.scoreData = << >>],
                        setData(ScoreKey(client[c].scoreId),
                                Utf8Json(client[c].scoreData)))

\* const keysBytes = await contract.getData("score_keys"), and the parse
AddScore_GetKeys(c, answered) ==
    /\ client[c].pc = "getKeys"
    /\ IF ~answered
       THEN ClientStep(c, Catch(client[c]))
       ELSE ClientStep(c, [client[c] EXCEPT
                !.pc = "setKeys",
                !.keys = ParseKeys(getData(ScoreKeysKey))])

\* keys.push(scoreId)
KeysPushed(keys, scoreId) == Append(keys, scoreId)

\* await contract.setData("score_keys", ...), then status "success" and the
\* call of loadScores up to its first await
AddScore_SetKeys(c, sent, contractOk) ==
    /\ client[c].pc = "setKeys"
    /\ IF ~sent
       THEN ClientStep(c, Catch(client[c]))
       ELSE LET reported == [client[c] EXCEPT
                    !.transactionStatus = [visible |-> TRUE, status |-> "success"],
                    !.keys = << >>]
            IN  ClientWrite(c,
                    IF contractOk THEN [reported EXCEPT !.pc = "probe"]
                                  ELSE LoadReturn(reported),
                    setData(ScoreKeysKey,
                            Utf8Json(KeysPushed(client[c].keys, client[c].scoreId))))

\* loadScores called by the page (mount, refresh): up to its first await;
\* a null contract returns
LoadScores(c, contractOk) ==
    /\ client[c].pc = "idle"
    /\ ClientStep(c, IF contractOk THEN [client[c] EXCEPT !.pc = "probe"]
                                   ELSE LoadReturn(client[c]))

\* await contract.isAvailable(): false returns, a throw is caught
LoadScores_Probe(c, available, answered) ==
    /\ client[c].pc = "probe"
    /\ ClientStep(c, IF answered /\ available
                     THEN [client[c] EXCEPT !.pc = "loadKeys"]
                     ELSE LoadReturn(client[c]))

\* await contract.getData("score_keys"), the parse; no key: sort and set
LoadScores_GetKeys(c, answered) ==
    /\ client[c].pc = "loadKeys"
    /\ LET keys == ParseKeys(getData(ScoreKeysKey))
       IN  ClientStep(c, IF ~answered THEN LoadReturn(client[c])
                         ELSE IF Len(keys) = 0 THEN LoadDone(client[c], << >>)
                         ELSE [client[c] EXCEPT !.pc = "loadRecord",
                                                !.keys = keys,
                                                !.list = << >>])

\* one turn of the loop: await contract.getData(`score_${key}`) for the
\* first key not read yet; empty bytes and a throw push nothing; after the
\* last key, sort and set
LoadScores_GetRecord(c, answered) ==
    /\ client[c].pc = "loadRecord"
    /\ LET key == Head(client[c].keys)
           scoreBytes == getData(ScoreKey(key))
           list == IF answered /\ ~scoreBytes.length0
                   THEN Append(client[c].list, ReputationScore(key, scoreBytes.json))
                   ELSE client[c].list
       IN  ClientStep(c, IF Len(client[c].keys) = 1
                         THEN LoadDone(client[c], list)
                         ELSE [client[c] EXCEPT !.keys = Tail(client[c].keys),
                                                !.list = list])

\* the setTimeout callbacks of addScore:
\* setTransactionStatus({ visible: false, status: "pending" })
HideStatus(c) ==
    /\ client[c].timer
    /\ ClientStep(c, [client[c] EXCEPT !.timer = FALSE,
                                       !.transactionStatus = NoStatus])

NextFrontend ==
    \/ \E c \in Clients : OnWalletSelect(c)
    \/ \E c \in Clients, score \in ScoreInputs, signerOk \in BOOLEAN :
          AddScore(c, score, signerOk)
    \/ \E c \in Clients, sent \in BOOLEAN : AddScore_SetRecord(c, sent)
    \/ \E c \in Clients, answered \in BOOLEAN : AddScore_GetKeys(c, answered)
    \/ \E c \in Clients, sent \in BOOLEAN, contractOk \in BOOLEAN :
          AddScore_SetKeys(c, sent, contractOk)
    \/ \E c \in Clients, contractOk \in BOOLEAN : LoadScores(c, contractOk)
    \/ \E c \in Clients, available \in isAvailable, answered \in BOOLEAN :
          LoadScores_Probe(c, available, answered)
    \/ \E c \in Clients, answered \in BOOLEAN : LoadScores_GetKeys(c, answered)
    \/ \E c \in Clients, answered \in BOOLEAN : LoadScores_GetRecord(c, answered)
    \/ \E c \in Clients : HideStatus(c)

SpecFrontend == Init /\ [][NextFrontend]_vars

(* C32: in the frontend store every id listed under score_keys has a       *)
(* stored record under score_<id>, in every state the addScore calls of    *)
(* the clients reach, a call that fails between its two writes included.   *)
C32_ListedIdsHaveRecords ==
    \A id \in ListedIds : ~getData(ScoreKey(id)).length0

\* an addScore failed after its record's write (the record is stored and
\* not listed, the client shows the error) while another id is listed
C32_Witness ==
    \E c \in Clients :
        /\ client[c].pc = "idle"
        /\ client[c].transactionStatus.status = "error"
        /\ client[c].scoreId \in RecordedIds \ ListedIds
        /\ ListedIds # {}

(* C33: an addScore that reported success leaves its id in score_keys for  *)
(* good, however the reads and writes of score_keys of two clients         *)
(* interleave: an id score_keys lists is never dropped from it, so once    *)
(* both clients are done both ids are listed.                              *)
C33_NoLostUpdate ==
    [][ \A id \in ScoreIds : id \in ListedIds => id \in ListedIds' ]_vars

====
